---- MODULE Spec2Model ----
(***************************************************************************)
(* State-machine model of the sync engine (SNSyncManager) of snjs.         *)
(*                                                                         *)
(* Every call of sync() is a process occupying a call slot.  Its program   *)
(* counter names the await at which the call is suspended; one action is   *)
(* the code a call runs between two suspension points.                     *)
(***************************************************************************)
EXTENDS Integers, Sequences, FiniteSets, TLC

\* ------------------------------------------------------------------ bounds
MaxCalls == 3    \* sync() calls that are alive at the same time
NumItems == 1    \* items of the master collection
MaxClock == 1    \* modifications of items made during a run (the logical clock)

MaxPendingWrites == 3  \* writes the storage back-end holds at the same time
MaxCollections == 1    \* collections with payloads a response resolves to
MaxMismatches == 6     \* integrity checks in a row that find a mismatch
NumKeys == 2           \* items keys; the key k was created at time k
MaxQueue == 2          \* items keys waiting to be decrypted at the same time
NumMigrations == 3     \* migration classes exported by @Lib/migrations
MaxDate == 2           \* latest time of a mutation
NumPayloads == 3       \* uuids of payloads a delta deals with
NumUsers == 2          \* accounts of the server
NumHashedItems == 2    \* items of a data integrity hash
NumUpdates == 3        \* updates of the undecryptables record
MaxRequests == 3       \* requests the session manager sends to the server
MaxVersionPart == 1    \* highest major, minor and patch number of a version

Calls == 1..MaxCalls
Items == 1..NumItems
NoDate == -1

\* ------------------------------------------------------- program constants
TIMING_STRATEGY_RESOLVE_ON_NEXT == 1
TIMING_STRATEGY_FORCE_SPAWN_NEW == 2
SYNC_MODE_DEFAULT == 1
SYNC_MODE_INITIAL == 2
INVALID_SESSION_RESPONSE_STATUS == 401
DEFAULT_MAX_DISCORDANCE == 5
SignedIn == 2          \* ApplicationEvent.SignedIn
SignedOut == 3         \* ApplicationEvent.SignedOut
UserInteraction == 1   \* MutationType.UserInteraction
Internal == 1          \* MutationType.Internal
MINIMUM_PASSWORD_LENGTH == 8
LatestVersion == 4     \* protocolService.getLatestVersion(): "004"

TimingStrategies == {TIMING_STRATEGY_RESOLVE_ON_NEXT, TIMING_STRATEGY_FORCE_SPAWN_NEW}
SyncModes == {SYNC_MODE_DEFAULT, SYNC_MODE_INITIAL}
\* what the server can answer to a round: success, an error, an invalid session
ResponseStatuses == {200, 500, INVALID_SESSION_RESPONSE_STATUS}
NoResponse == 0

VARIABLES
  pc,                    \* per call: where the call is suspended
  strategy,              \* per call: useStrategy
  mode,                  \* per call: useMode
  snapshot,              \* per call: items (L344), as item -> dirtiedDate or NoDate
  nsd,                   \* per call: neverSyncedDeleted
  presaved,              \* per call: payloadsNeedingSave written by this call
  inTime,                \* per call: inTimeResolveQueue
  upload,                \* per call: uploadPayloads of the round
  response,              \* per call: status of the response the round received
  ranRound,              \* per call: the call completed a round of its own
  regDuring,             \* per call: rounds that were running when it was queued
                         \*   (0: a sync was in progress), kept until the slot
                         \*   is taken by another call
  locked,
  databaseLoaded,
  completedInitialSync,
  syncInProgress,        \* opStatus.syncInProgress
  opError,               \* opStatus.error is set
  lastPreSyncSaveDate,   \* state.lastPreSyncSaveDate
  resolveQueue,
  spawnQueue,
  items,                 \* the master collection
  storage,               \* payloads of the storage back-end
  syncToken,
  cursorToken,
  events,                \* events notified during the latest step
  clock                  \* new Date()

callVars == <<pc, strategy, mode, snapshot, nsd, presaved, inTime, upload,
              response, ranRound, regDuring>>
engineVars == <<locked, databaseLoaded, completedInitialSync, syncInProgress,
                opError, lastPreSyncSaveDate, resolveQueue, spawnQueue>>
dataVars == <<items, storage, syncToken, cursorToken, clock>>
vars == <<callVars, engineVars, dataVars, events>>

\* The handling of the responses of the sync operations, with the storage
\* back-end and the integrity state (SyncState).
VARIABLES
  hpc,                   \* where handleSuccessServerResponse is suspended
  resp,                  \* the response being handled
  collections,           \* collections of the resolver still to be persisted
  writes,                \* writes the storage back-end has not completed
  disk,                  \* values the storage back-end holds
  discordance,           \* state.discordance
  outOfSync,             \* state.outOfSync
  hashes,                \* state.clientHash and state.serverHash
  requested,             \* options of the sync() calls made by the latest step
  notified               \* events notified by the latest step

storageVars == <<writes, disk>>
stateVars == <<discordance, outOfSync, hashes>>
responseVars == <<hpc, resp, collections, storageVars, stateVars, requested,
                  notified>>

\* Key recovery (SNKeyRecoveryService).
VARIABLES
  itemState,             \* per items key: the copy of the master collection
  undecryptables,        \* uuids of the key_recovery_undecryptable_items record
  pendingAdds,           \* addKeysToQueue calls awaiting the embedded params
  decryptionQueue,
  isProcessingQueue,
  kpc,                   \* where the run of beginProcessingQueue is suspended
  cur,                   \* the queue item of the outstanding challenge
  replacesRootKey,       \* popQueueItem's replacesRootKey for cur
  dpc,                   \* where the callback of queuePromise is suspended
  rootKeyParams,         \* key params of the root key (the client's params)
  serverParams,
  hasPasscode,
  happened               \* what the latest step did

recoveryVars == <<itemState, undecryptables, pendingAdds,
                  decryptionQueue, isProcessingQueue, kpc, cur,
                  replacesRootKey, dpc, rootKeyParams, serverParams,
                  hasPasscode, happened>>

\* Migrations (SNMigrationService).
VARIABLES
  migrationImports,      \* per migration class: its static version()
  storedVersion,         \* the snjs_version value of the raw storage
  mpc,                   \* how far initialize has come
  activeMigrations,      \* classes of the instantiated migrations, in order
  pending,               \* what the latest hasPendingMigrations returned
  asked,                 \* what the latest hasPendingMigrations read
  done,                  \* active migrations that reported done
  stageRuns              \* per entry point: the run of handleStage it started

migrationVars == <<migrationImports, storedVersion, mpc, activeMigrations,
                   pending, asked, done, stageRuns>>

\* Conflicts of items (SNItem.strategyWhenConflictingWithItem).
VARIABLES
  localItem,             \* the item asked for its strategy (this)
  incomingItem,          \* the item it conflicts with
  conflictStrategy       \* what strategyWhenConflictingWithItem returned

conflictVars == <<localItem, incomingItem, conflictStrategy>>

\* Mutation of an item (ItemMutator).
VARIABLES
  itemPayload,           \* item.payload; its content names an object
  heap,                  \* per content object: its value
  mutator,               \* source, payload and content of the mutator
  result,                \* what the latest step returned, if a payload
  date,                  \* the time
  thrown,                \* the latest operation threw
  lastOp                 \* the latest operation and its arguments

mutatorVars == <<itemPayload, heap, mutator, result, date, thrown, lastOp>>

\* The delta of rejected payloads (DeltaRemoteRejected).
VARIABLES
  applyCollection,       \* the rejected payloads, in the order of all()
  decryptedTransient,    \* per uuid: the related decrypted payload, if any
  deltaResult            \* what resultingCollection returned or threw

deltaVars == <<applyCollection, decryptedTransient, deltaResult>>

\* The session manager (SNSessionManager).
VARIABLES
  user,             \* this.user
  storedUser,       \* the value of StorageKey.User
  session,          \* the session of the api service
  storedSession,    \* the session the api service persisted
  accountVersion,   \* the version of the client's account key params
  requests,         \* requests sent to the server so far
  authCall,         \* the latest call: its arguments and where it is
  authReturn        \* what the latest call returned

sessionVars == <<user, storedUser, session, storedSession, accountVersion,
                 requests, authCall, authReturn>>

\* The data integrity hash of two lists of items.
VARIABLES
  itemLists,        \* modelManager.items, for each of the two
  hashedStrings     \* the string handed to sha256, for each of the two

hashVars == <<itemLists, hashedStrings>>

\* The key_recovery_undecryptable_items record and its updates.
VARIABLES
  storedRecord,     \* the value of the storage key, when one is stored
  updates,          \* the calls of saveToUndecryptables and
                    \* removeFromUndecryptables, and where each is suspended
  queuedKeys,       \* the persisted keys in the decryption queue
  expectedRecord    \* the uuids saved and not removed, in the order of calls

recordVars == <<storedRecord, updates, queuedKeys, expectedRecord>>

\* Items, their mutators, the deltas of their payloads, and the session.
itemVars == <<conflictVars, mutatorVars, deltaVars, sessionVars, hashVars,
              recordVars>>

\* The variables of the other services.
otherVars == <<responseVars, recoveryVars, migrationVars, itemVars>>

\* The variables of the services.
serviceVars == <<vars, responseVars, recoveryVars, migrationVars, sessionVars,
                 hashVars, recordVars>>

\* The variables of the services other than the session manager.
serviceVarsButSession == <<vars, responseVars, recoveryVars, migrationVars,
                           hashVars, recordVars>>

\* ------------------------------------------------------------------ helpers
Range(s) == {s[k] : k \in 1..Len(s)}

Min(S) == CHOOSE x \in S : \A y \in S : x <= y

subtractFromArray(array, toSubtract) ==
  SelectSeq(array, LAMBDA e : e \notin toSubtract)

NoSnapshot == [i \in Items |-> NoDate]

\* SNItem.neverSynced
neverSynced(item) == ~item.synced

\* SNSyncManager.itemsNeedingSync: modelManager.getDirtyItems()
itemsNeedingSync == {i \in Items : items[i].dirty}

\* events.ts: applicationEventForSyncEvent
applicationEventForSyncEvent(syncEvent) ==
  CASE syncEvent = "FullSyncCompleted" -> "CompletedFullSync"
    [] syncEvent = "SingleSyncCompleted" -> "CompletedIncrementalSync"
    [] syncEvent = "SyncError" -> "FailedSync"
    [] syncEvent = "InvalidSession" -> "InvalidSyncSession"
    [] syncEvent = "LocalDataLoaded" -> "LocalDataLoaded"
    [] OTHER -> "undefined"

\* A call slot is free once the promise of its call is settled (resolved or
\* rejected), or once no queue holds its resolver any more.
FreeSlots == {c \in Calls : pc[c] \in {"idle", "thrown"}}

\* Calls between opStatus.setDidBegin() and opStatus.setDidEnd().
InRound(c) == pc[c] \in {"begun", "running", "responded"}

RunningRounds == {c \in Calls : InRound(c)}

\* ---------------------------------------------------------------- initial
\* new SyncOpStatus() and new SyncState(): no sync in progress, no error, no
\* pre-sync save made yet.
InitStatus ==
  /\ syncInProgress = FALSE
  /\ opError = FALSE
  /\ lastPreSyncSaveDate = NoDate

\* ----------------------------------------------- storage and SyncState
NoHash == 0
Hashes == {1, 2}
Tokens == {1, 2}
NoToken == 0

\* A response of the server that has no error: the tokens, the number of
\* collections with payloads it resolves to, and the integrity hash when the
\* request asked for one.
Responses ==
  [lastSyncToken : Tokens, paginationToken : {NoToken, 1},
   collections : 0..MaxCollections, checkIntegrity : BOOLEAN,
   integrityHash : Hashes]

NoResponseHandled ==
  [lastSyncToken |-> NoToken, paginationToken |-> NoToken, collections |-> 0,
   checkIntegrity |-> FALSE, integrityHash |-> 1]

NoHashes == [clientHash |-> NoHash, serverHash |-> NoHash]

EmptyDisk == [LastSyncToken |-> NoToken, PaginationToken |-> NoToken,
              payloads |-> NoToken]

\* new SyncState(): in sync, no discordance, no hashes.
InitState ==
  /\ discordance = 0
  /\ outOfSync = FALSE
  /\ hashes = NoHashes

\* No response received yet, nothing written to the storage back-end.
InitHandler ==
  /\ hpc = "idle"
  /\ resp = NoResponseHandled
  /\ collections = 0
  /\ writes = <<>>
  /\ disk = EmptyDisk
  /\ requested = <<>>
  /\ notified = <<>>

InitResponse == InitHandler /\ InitState

\* ------------------------------------------------------------ key recovery
Keys == 1..NumKeys
NoParams == [seed |-> 0, version |-> 0]

\* Root key params: what the key is derived with, and the protocol version.
KeyParams == {[seed |-> 1, version |-> 1], [seed |-> 2, version |-> 2]}

NoItem == [key |-> 0, keyParams |-> NoParams, callback |-> FALSE]

\* The service after its construction: nothing queued, no server params.
InitQueue ==
  /\ undecryptables = {}
  /\ pendingAdds = {}
  /\ decryptionQueue = <<>>
  /\ isProcessingQueue = FALSE
  /\ kpc = "idle"
  /\ cur = NoItem
  /\ replacesRootKey = FALSE
  /\ dpc = "none"
  /\ serverParams = NoParams
  /\ happened = {}

\* No items key known, no account, no passcode.
InitRecovery ==
  /\ InitQueue
  /\ itemState = [k \in Keys |-> "none"]
  /\ rootKeyParams = NoParams
  /\ hasPasscode = FALSE

\* Migration classes, in the order of Object.keys(migrationImports).
MigrationClasses == 1..NumMigrations

\* Semantic versions <<major, minor, patch>>.
VersionParts == 0..MaxVersionPart
Versions == VersionParts \X VersionParts \X VersionParts

\* The version of this build of the library.
SnjsVersion == <<MaxVersionPart, MaxVersionPart, MaxVersionPart>>

\* No snjs_version value in the raw storage.
NoVersion == <<>>

\* Application stages (ApplicationStage), in the order of the launch.
NoStage == 0
PreparingForLaunch_0 == 1
Launched_10 == 2
SignedIn_30 == 3
ApplicationStages == {PreparingForLaunch_0, Launched_10, SignedIn_30}

\* The callers of handleStage: handleApplicationStage and
\* handleApplicationEvent.
EntryPoints == {"stage", "event"}

\* The base migration as a receiver of stages; the active migrations are
\* named by their classes.
BaseMigration == 0

\* No run of handleStage: nothing delivered, no handler running.
NoRun == [stage |-> NoStage, delivered |-> <<>>, inHandler |-> FALSE,
          running |-> FALSE]

\* hasPendingMigrations was not called.
NoCall == [storedVersion |-> NoVersion, needsKeychainRepair |-> FALSE]

\* The service after its construction: nothing instantiated.
InitService ==
  /\ mpc = "constructed"
  /\ activeMigrations = <<>>
  /\ pending = FALSE
  /\ asked = NoCall
  /\ done = {}
  /\ stageRuns = [e \in EntryPoints |-> NoRun]

\* A fresh installation of a build whose migrations are of its own version.
InitMigration ==
  /\ InitService
  /\ migrationImports = [c \in MigrationClasses |-> SnjsVersion]
  /\ storedVersion = NoVersion

\* Keys of the content of an item, and keys of its data of the default
\* domain (content.appData['org.standardnotes.sn']).
ContentKeys == {"title", "references", "conflict_of"}
AppDataKeys == {"client_updated_at", "pinned"}

\* The values a key can have.
ContentValues == {"a", "b"}

\* Decrypted contents.
Contents ==
  [kind : {"object"},
   keys : [ContentKeys -> ContentValues],
   appData : [AppDataKeys -> ContentValues]]

\* The content of a deleted item (undefined), and the content of an item
\* that could not be decrypted (a string): neither has keys.
NoContent ==
  [kind |-> "undefined", keys |-> <<>>, appData |-> <<>>]
EncryptedContent ==
  [kind |-> "string", keys |-> <<>>, appData |-> <<>>]

\* The content an item can have.
contentsOf(deleted, errorDecrypting) ==
  IF deleted THEN {NoContent}
  ELSE IF errorDecrypting THEN {EncryptedContent}
  ELSE Contents

\* Items of any class: those of a class such as SNPrivileges are singletons.
ConflictItems ==
  UNION {[isSingleton : BOOLEAN, errorDecrypting : {errorDecrypting},
          deleted : {deleted}, content : contentsOf(deleted, errorDecrypting)] :
           <<deleted, errorDecrypting>> \in BOOLEAN \X BOOLEAN}

ConflictStrategies ==
  {"KeepLeft", "KeepRight", "KeepLeftDuplicateRight",
   "KeepRightDuplicateLeft", "KeepLeftMergeRefs"}

\* strategyWhenConflictingWithItem was not called.
NoStrategy == "none"

\* A deleted item in conflict with itself, not asked for its strategy.
InitConflict ==
  /\ localItem = [isSingleton |-> FALSE, errorDecrypting |-> FALSE,
                  deleted |-> TRUE, content |-> NoContent]
  /\ incomingItem = localItem
  /\ conflictStrategy = NoStrategy

\* Domains of content.appData.
DefaultAppDomain == "org.standardnotes.sn"
ComponentsDomain == "org.standardnotes.sn.components"
Domains == {DefaultAppDomain, ComponentsDomain}

UserModifiedDateKey == "client_updated_at"

Dates == 0..MaxDate

\* The data of a domain: no object (undefined), or an object whose keys
\* have a value or none.
NoDomainData ==
  [present |-> FALSE, client_updated_at |-> NoDate, pinned |-> "undefined"]
EmptyDomainData ==
  [present |-> TRUE, client_updated_at |-> NoDate, pinned |-> "undefined"]
DomainDatas ==
  [present : {TRUE}, client_updated_at : Dates \cup {NoDate},
   pinned : {"undefined", "true"}]

\* content.appData: undefined, or an object with the data of the domains.
NoAppData ==
  [present |-> FALSE, domains |-> [d \in Domains |-> NoDomainData]]

\* The values of content objects: decrypted contents, and what is no
\* object (undefined, the string of an errored payload).
UndefinedContent ==
  [kind |-> "undefined", trashed |-> FALSE, appData |-> NoAppData]
StringContent ==
  [kind |-> "string", trashed |-> FALSE, appData |-> NoAppData]
MutatorContents ==
  [kind : {"object"}, trashed : BOOLEAN,
   appData : {NoAppData} \cup
             [present : {TRUE},
              domains : [Domains -> DomainDatas \cup {NoDomainData}]]]

\* The contents of the items that are mutated: without appData, or with
\* data of the default domain (a user modified date, or only a pin) and
\* of the other domain.
MutatedContents ==
  {c \in MutatorContents :
     /\ ~c.trashed
     /\ c.appData.present =>
          /\ c.appData.domains[DefaultAppDomain] \in
               {NoDomainData,
                [EmptyDomainData EXCEPT !.client_updated_at = 0],
                [EmptyDomainData EXCEPT !.pinned = "true"]}
          /\ c.appData.domains[ComponentsDomain] \in
               {NoDomainData, [EmptyDomainData EXCEPT !.pinned = "true"]}}

\* Objects: the content of the item, its copy, and no object.
ObjectRefs == {"item", "copy", "undefined"}

\* A payload that was synced at time 0 and is not dirty.
cleanPayload(deleted, errorDecrypting) ==
  [uuid |-> 1, content_type |-> "Note", created_at |-> 0, updated_at |-> 0,
   deleted |-> deleted, errorDecrypting |-> errorDecrypting,
   dirty |-> FALSE, dirtiedDate |-> NoDate, lastSyncBegan |-> NoDate,
   content |-> "item"]

NoMutator == [source |-> 0, payload |-> cleanPayload(TRUE, FALSE),
              content |-> "undefined"]
NoResult == [returned |-> FALSE, payload |-> cleanPayload(TRUE, FALSE),
             content |-> UndefinedContent]
NoOp == [name |-> "none", key |-> "", domain |-> "", data |-> NoDomainData]

\* No mutator was made for the item.
InitMutation ==
  /\ mutator = NoMutator
  /\ result = NoResult
  /\ date = 1
  /\ thrown = FALSE
  /\ lastOp = NoOp

\* A deleted item.
InitMutator ==
  /\ InitMutation
  /\ itemPayload = cleanPayload(TRUE, FALSE)
  /\ heap = [r \in ObjectRefs |-> UndefinedContent]

\* Payloads of a delta.
Uuids == 1..NumPayloads

\* No payload of the uuid in a collection.
NoPayload == [uuid |-> 0, content |-> "undefined", dirty |-> FALSE,
              lastSyncEnd |-> NoDate, source |-> "none"]

\* The payload the server rejected: encrypted, as it was sent.
rejectedPayload(u) ==
  [uuid |-> u, content |-> "encrypted", dirty |-> FALSE,
   lastSyncEnd |-> NoDate, source |-> "RemoteRejected"]

\* The decrypted payloads kept for the time of the sync.
decryptedCounterparts(u) ==
  [uuid : {u}, content : {"decrypted"}, dirty : BOOLEAN,
   lastSyncEnd : {NoDate}, source : {"DecryptedTransient"}]

\* Sequences of different uuids.
UuidSeqs ==
  {q \in UNION {[1..n -> Uuids] : n \in 0..NumPayloads} :
     \A i, j \in 1..Len(q) : i # j => q[i] # q[j]}

\* resultingCollection was not called.
NoDeltaResult == [called |-> FALSE, thrown |-> FALSE, payloads |-> <<>>,
                  source |-> "none"]

\* A delta with nothing to apply.
InitDelta ==
  /\ applyCollection = <<>>
  /\ decryptedTransient = [u \in Uuids |-> NoPayload]
  /\ deltaResult = NoDeltaResult

\* Users, sessions and responses of the session manager.
Users == 1..NumUsers
NoUser == 0
NoSession == [kind |-> "none", user |-> NoUser]

\* Versions of key params: "000" to "005".
KeyParamsVersions == 0..(LatestVersion + 1)
NoKeyParamsVersion == -1

\* No response.
NoAuthResponse ==
  [id |-> 0, error |-> FALSE, message |-> "none", mfa_key |-> FALSE,
   user |-> NoUser, token |-> "none"]

\* No call of the session manager was made.
NoAuthCall ==
  [op |-> "none", pc |-> "idle", passwordLength |-> 0,
   version |-> NoKeyParamsVersion, pw_cost |-> 0, confirmed |-> FALSE,
   platformSupports |-> FALSE, strict |-> FALSE,
   minAllowedVersion |-> NoKeyParamsVersion, sent |-> 0,
   response |-> NoAuthResponse,
   before |-> <<NoUser, NoUser, NoSession, NoSession>>,
   requestsBefore |-> 0]

\* Nothing was returned.
NoAuthReturn ==
  [returned |-> FALSE, thrown |-> FALSE, response |-> NoAuthResponse]

\* The session manager after construction (L40-52): no user, no session.
InitSession ==
  /\ user = NoUser
  /\ storedUser = NoUser
  /\ session = NoSession
  /\ storedSession = NoSession
  /\ accountVersion = NoKeyParamsVersion
  /\ requests = 0
  /\ authCall = NoAuthCall
  /\ authReturn = NoAuthReturn

\* No hash was computed.
NoString == <<-1>>

\* No items, no hash computed.
InitHash ==
  /\ itemLists = <<<<>>, <<>>>>
  /\ hashedStrings = <<NoString, NoString>>

\* No value is stored for the key of the undecryptables record.
NoStoredRecord == [stored |-> FALSE, uuids |-> {}]

\* No call of saveToUndecryptables or removeFromUndecryptables.
NoUpdate == [op |-> "none", keys |-> {}, at |-> "none", record |-> {}]

Updates == 1..NumUpdates

\* Nothing persisted, no update of the record called.
InitRecord ==
  /\ storedRecord = NoStoredRecord
  /\ updates = [u \in Updates |-> NoUpdate]
  /\ queuedKeys = {}
  /\ expectedRecord = {}

InitItems ==
  /\ InitConflict /\ InitMutator /\ InitDelta /\ InitSession /\ InitHash
  /\ InitRecord

\* The other services after their construction.
InitOther == InitResponse /\ InitRecovery /\ InitMigration /\ InitItems

\* An item of the master collection that no sync has touched.
CleanItem ==
  [dirty |-> FALSE, deleted |-> FALSE, synced |-> FALSE,
   dirtiedDate |-> 0, dirtiedAfterBegan |-> FALSE]

\* An item created as dirty: its payload has no dirtiedDate (L280).
CreatedDirtyItem == [CleanItem EXCEPT !.dirty = TRUE]

\* The manager after its construction, no sync() call made.
InitEngine ==
  /\ pc = [c \in Calls |-> "idle"]
  /\ strategy = [c \in Calls |-> TIMING_STRATEGY_RESOLVE_ON_NEXT]
  /\ mode = [c \in Calls |-> SYNC_MODE_DEFAULT]
  /\ snapshot = [c \in Calls |-> NoSnapshot]
  /\ nsd = [c \in Calls |-> {}]
  /\ presaved = [c \in Calls |-> {}]
  /\ inTime = [c \in Calls |-> {}]
  /\ upload = [c \in Calls |-> {}]
  /\ response = [c \in Calls |-> NoResponse]
  /\ ranRound = [c \in Calls |-> FALSE]
  /\ regDuring = [c \in Calls |-> {}]
  /\ locked = FALSE
  /\ databaseLoaded = FALSE
  /\ completedInitialSync = FALSE
  /\ InitStatus
  /\ resolveQueue = <<>>
  /\ spawnQueue = <<>>
  /\ storage = [i \in Items |-> [stored |-> FALSE, dirty |-> FALSE]]
  /\ syncToken = 0
  /\ cursorToken = 0
  /\ events = <<>>
  /\ clock = 0

Init ==
  /\ InitEngine
  /\ items = [i \in Items |-> CleanItem]
  /\ InitOther

\* The manager after its construction, with items that were created as dirty.
InitCreated ==
  /\ InitEngine
  /\ items \in [Items -> {CleanItem, CreatedDirtyItem}]
  /\ InitOther

\* ------------------------------------------------------------ environment
\* SNSyncManager.lockSyncing
lockSyncing ==
  /\ ~locked
  /\ locked' = TRUE
  /\ events' = <<>>
  /\ UNCHANGED <<callVars, dataVars, databaseLoaded, completedInitialSync,
                 syncInProgress, opError, lastPreSyncSaveDate, resolveQueue,
                 spawnQueue>>
  /\ UNCHANGED otherVars

\* SNSyncManager.unlockSyncing
unlockSyncing ==
  /\ locked
  /\ locked' = FALSE
  /\ events' = <<>>
  /\ UNCHANGED <<callVars, dataVars, databaseLoaded, completedInitialSync,
                 syncInProgress, opError, lastPreSyncSaveDate, resolveQueue,
                 spawnQueue>>
  /\ UNCHANGED otherVars

\* SNSyncManager.loadDatabasePayloads: throws when already loaded, else ends
\* with databaseLoaded = true.
loadDatabasePayloads ==
  /\ ~databaseLoaded
  /\ databaseLoaded' = TRUE
  /\ events' = <<"LocalDataLoaded">>
  /\ UNCHANGED <<callVars, locked, completedInitialSync, syncInProgress,
                 opError, lastPreSyncSaveDate, resolveQueue, spawnQueue,
                 items, storage, syncToken, cursorToken, clock>>
  /\ UNCHANGED otherVars

\* ItemMutator.getResult (and setDeleted): the item's payload is replaced by a
\* payload with dirty = true and dirtiedDate = new Date().
getResult(i, setDeleted) ==
  /\ clock < MaxClock
  /\ clock' = clock + 1
  /\ items' = [items EXCEPT ![i] =
       [@ EXCEPT !.dirty = TRUE, !.deleted = @ \/ setDeleted,
                 !.dirtiedDate = clock + 1, !.dirtiedAfterBegan = TRUE]]
  /\ events' = <<>>
  /\ UNCHANGED <<callVars, engineVars, storage, syncToken, cursorToken>>
  /\ UNCHANGED otherVars

\* The queued calls whose resolver handleSignOut drops: every spawn-queue
\* entry, and every resolve-queue callback that no running round holds in
\* its in-time queue. Their promises are never settled: the calls are over
\* for the engine, and their slots are free again.
Dropped ==
  {w \in Calls :
     \/ pc[w] = "waitSpawn"
     \/ pc[w] = "waitResolve" /\ \A r \in RunningRounds : w \notin inTime[r]}

\* The storage back-end completes a write: the value is on the disk.
applyWrite(d, w) == [d EXCEPT ![w.key] = w.value]

RECURSIVE applyWrites(_, _)
applyWrites(d, ws) ==
  IF ws = <<>> THEN d ELSE applyWrites(applyWrite(d, Head(ws)), Tail(ws))

\* SNSyncManager.clearSyncPositionTokens, L209-210: both removals are awaited,
\* so every write queued before them has completed too.
clearSyncPositionTokens ==
  /\ writes' = <<>>
  /\ disk' = [applyWrites(disk, writes) EXCEPT
               !.LastSyncToken = NoToken, !.PaginationToken = NoToken]

\* SyncState.reset
resetState ==
  /\ discordance' = 0
  /\ outOfSync' = FALSE
  /\ hashes' = NoHashes

\* SNSyncManager.handleSignOut
handleSignOut ==
  /\ lastPreSyncSaveDate' = NoDate
  /\ syncInProgress' = FALSE
  /\ opError' = FALSE
  /\ resolveQueue' = <<>>
  /\ spawnQueue' = <<>>
  /\ syncToken' = 0
  /\ cursorToken' = 0
  /\ pc' = [w \in Calls |-> IF w \in Dropped THEN "idle" ELSE pc[w]]
  /\ strategy' = [w \in Calls |->
       IF w \in Dropped THEN TIMING_STRATEGY_RESOLVE_ON_NEXT ELSE strategy[w]]
  /\ regDuring' = [w \in Calls |-> IF w \in Dropped THEN {} ELSE regDuring[w]]
  /\ ranRound' = [w \in Calls |-> IF w \in Dropped THEN FALSE ELSE ranRound[w]]
  /\ events' = <<>>
  /\ UNCHANGED <<mode, snapshot, nsd, presaved, inTime, upload, response,
                 locked, databaseLoaded, completedInitialSync, items, storage,
                 clock>>
  /\ resetState
  /\ clearSyncPositionTokens
  /\ requested' = <<>>
  /\ notified' = <<>>
  /\ UNCHANGED <<hpc, resp, collections, recoveryVars, migrationVars, itemVars>>

\* ------------------------------------------------------------------ sync()
\* SNSyncManager.sync, L339-358: what a call does before its first await.
\* A locked engine returns at once; otherwise the dirty items are collected
\* and the never-synced deleted ones are set apart.
syncPc == IF locked THEN "idle" ELSE "collected"

syncCollect(c, st, md) ==
  IF locked
    THEN UNCHANGED <<strategy, mode, snapshot, nsd>>
    ELSE /\ strategy' = [strategy EXCEPT ![c] = st]
         /\ mode' = [mode EXCEPT ![c] = md]
         /\ snapshot' = [snapshot EXCEPT ![c] =
              [i \in Items |-> IF i \in itemsNeedingSync
                                 THEN items[i].dirtiedDate ELSE NoDate]]
         /\ nsd' = [nsd EXCEPT ![c] =
              {i \in itemsNeedingSync :
                 neverSynced(items[i]) /\ items[i].deleted}]

\* The items of a call (L344).
SnapItems(c) == {i \in Items : snapshot[c][i] # NoDate}

\* Variant of decryptedPayloads that keeps the never-synced deleted items.
decryptedPayloadsOfAllItems(c) == SnapItems(c)

\* decryptedPayloads (L354): items minus neverSyncedDeleted.
decryptedPayloads(c) == SnapItems(c) \ nsd[c]

\* An external caller calls sync({ timingStrategy, mode }).
sync(st, md) ==
  /\ Cardinality(FreeSlots) >= 2
  /\ LET c == Min(FreeSlots) IN
       /\ pc' = [pc EXCEPT ![c] = syncPc]
       /\ syncCollect(c, st, md)
       /\ regDuring' = [regDuring EXCEPT ![c] = {}]
  /\ events' = <<>>
  /\ UNCHANGED <<presaved, inTime, upload, response, ranRound, engineVars,
                 dataVars>>
  /\ UNCHANGED otherVars

\* Variant of popPayloadsNeedingPreSyncSave that keeps only the payloads
\* whose dirtiedDate is newer than the last pre-sync save.
popPayloadsNewerOnly(from, snap) ==
  {i \in from : snap[i] > 0 /\ snap[i] > lastPreSyncSaveDate}

\* SNSyncManager.popPayloadsNeedingPreSyncSave
popPayloadsNeedingPreSyncSave(from, snap) ==
  IF lastPreSyncSaveDate = NoDate
    THEN from
    ELSE {i \in from : snap[i] = 0 \/ snap[i] > lastPreSyncSaveDate}

\* SNSyncManager.sync, L360-365: the pre-sync save. The call goes on only
\* after the write to storage has completed.
payloadsNeedingSave(c) ==
  popPayloadsNeedingPreSyncSave(decryptedPayloads(c), snapshot[c])

preSyncSave(c) ==
  /\ storage' = [i \in Items |->
       IF i \in payloadsNeedingSave(c)
         THEN [stored |-> TRUE, dirty |-> TRUE]
         ELSE storage[i]]
  /\ lastPreSyncSaveDate' =
       IF lastPreSyncSaveDate = NoDate THEN NoDate ELSE clock

\* SNSyncManager.timingStrategyResolveOnNext
timingStrategyResolveOnNext(c) == Append(resolveQueue, c)

\* SNSyncManager.timingStrategyForceSpawnNew
timingStrategyForceSpawnNew(c) == Append(spawnQueue, c)

\* The resolve queue before the call adds to it (L368).
inTimeResolveQueue == Range(resolveQueue)

\* Variant of mayBegin that does not look at opStatus.syncInProgress.
mayBeginIgnoringInProgress == databaseLoaded

\* L377: the call may begin a round.
mayBegin == ~(syncInProgress \/ ~databaseLoaded)

\* SNSyncManager.sync, L360-390: a sync is in progress, or the database is
\* not loaded: the call is queued by its timing strategy and returns. The
\* options of a spawn-queue entry hold no mode.
syncQueued(c) ==
  /\ pc[c] = "collected"
  /\ ~mayBegin
  /\ preSyncSave(c)
  /\ IF strategy[c] = TIMING_STRATEGY_RESOLVE_ON_NEXT
       THEN /\ resolveQueue' = timingStrategyResolveOnNext(c)
            /\ spawnQueue' = spawnQueue
            /\ pc' = [pc EXCEPT ![c] = "waitResolve"]
       ELSE /\ spawnQueue' = timingStrategyForceSpawnNew(c)
            /\ resolveQueue' = resolveQueue
            /\ pc' = [pc EXCEPT ![c] = "waitSpawn"]
  /\ regDuring' = [regDuring EXCEPT ![c] =
       RunningRounds \cup (IF syncInProgress THEN {0} ELSE {})]
  /\ mode' = [mode EXCEPT ![c] = SYNC_MODE_DEFAULT]
  /\ snapshot' = [snapshot EXCEPT ![c] = NoSnapshot]
  /\ nsd' = [nsd EXCEPT ![c] = {}]
  /\ events' = <<>>
  /\ UNCHANGED <<strategy, presaved, inTime, upload, response, ranRound,
                 locked, databaseLoaded, completedInitialSync, syncInProgress,
                 opError, items, syncToken, cursorToken, clock>>
  /\ UNCHANGED otherVars

\* SNSyncManager.sync, L360-404: the pre-sync save, then
\* opStatus.setDidBegin() and lastSyncBegan.
syncBegin(c) ==
  /\ pc[c] = "collected"
  /\ mayBegin
  /\ preSyncSave(c)
  /\ presaved' = [presaved EXCEPT ![c] = payloadsNeedingSave(c)]
  /\ inTime' = [inTime EXCEPT ![c] = inTimeResolveQueue]
  /\ syncInProgress' = TRUE
  /\ items' = [i \in Items |->
       IF i \in decryptedPayloads(c)
         THEN [items[i] EXCEPT !.dirtiedAfterBegan = FALSE]
         ELSE items[i]]
  /\ pc' = [pc EXCEPT ![c] = "begun"]
  /\ events' = <<>>
  /\ UNCHANGED <<strategy, mode, snapshot, nsd, upload, response, ranRound,
                 regDuring, locked, databaseLoaded, completedInitialSync,
                 opError, resolveQueue, spawnQueue, syncToken, cursorToken,
                 clock>>
  /\ UNCHANGED otherVars

\* Variant of uploadPayloads that uploads the dirty payloads in every mode.
uploadPayloadsInAnyMode(c) == decryptedPayloads(c)

\* SNSyncManager.sync, L406-437: the upload payloads of the round.
uploadPayloads(c) ==
  IF mode[c] = SYNC_MODE_DEFAULT THEN decryptedPayloads(c) ELSE {}

\* L413-416: a default-mode sync before the initial sync has completed.
throwsBeforeInitial(c) == mode[c] = SYNC_MODE_DEFAULT /\ ~completedInitialSync

\* SNSyncManager.sync, L413-416: the call throws, after setDidBegin.
syncThrow(c) ==
  /\ pc[c] = "begun"
  /\ throwsBeforeInitial(c)
  /\ pc' = [pc EXCEPT ![c] = "thrown"]
  /\ strategy' = [strategy EXCEPT ![c] = TIMING_STRATEGY_RESOLVE_ON_NEXT]
  /\ snapshot' = [snapshot EXCEPT ![c] = NoSnapshot]
  /\ nsd' = [nsd EXCEPT ![c] = {}]
  /\ presaved' = [presaved EXCEPT ![c] = {}]
  /\ inTime' = [inTime EXCEPT ![c] = {}]
  /\ ranRound' = [ranRound EXCEPT ![c] = FALSE]
  /\ regDuring' = [d \in Calls |-> IF d = c THEN {} ELSE regDuring[d] \ {c}]
  /\ events' = <<>>
  /\ UNCHANGED <<mode, upload, response, engineVars, dataVars>>
  /\ UNCHANGED otherVars

\* SNSyncManager.sync, L406-438: operation.run() is started.
syncRun(c) ==
  /\ pc[c] = "begun"
  /\ ~throwsBeforeInitial(c)
  /\ upload' = [upload EXCEPT ![c] = uploadPayloads(c)]
  /\ pc' = [pc EXCEPT ![c] = "running"]
  /\ events' = <<>>
  /\ UNCHANGED <<strategy, mode, snapshot, nsd, presaved, inTime, response,
                 ranRound, regDuring, engineVars, dataVars>>
  /\ UNCHANGED otherVars

\* ------------------------------------------------------ response handling
\* Variant of handleErrorServerResponse that notifies the error and then
\* goes on as for a successful response.
handleErrorThenSuccess(c, status) ==
  /\ syncToken' = 1
  /\ cursorToken' = 0
  /\ opError' = TRUE
  /\ items' = [i \in Items |->
       IF i \in upload[c]
         THEN [items[i] EXCEPT !.dirty = FALSE, !.synced = TRUE]
         ELSE items[i]]
  /\ storage' = storage
  /\ events' = (IF status = INVALID_SESSION_RESPONSE_STATUS
                  THEN <<"InvalidSession">> ELSE <<>>) \o <<"SyncError">>

\* SNSyncManager.handleErrorServerResponse
handleErrorServerResponse(c, status) ==
  /\ events' = (IF status = INVALID_SESSION_RESPONSE_STATUS
                  THEN <<"InvalidSession">> ELSE <<>>) \o <<"SyncError">>
  /\ opError' = TRUE
  /\ UNCHANGED <<items, storage, syncToken, cursorToken>>

\* The payload of an uploaded item after the server saved it: it stays dirty
\* only if it was dirtied after lastSyncBegan (L395-397).
remoteSaved(item) ==
  [item EXCEPT !.dirty = item.dirtiedAfterBegan, !.synced = TRUE]

\* SNSyncManager.handleSuccessServerResponse
handleSuccessServerResponse(c) ==
  /\ syncToken' = 1
  /\ cursorToken' = 0
  /\ opError' = FALSE
  /\ items' = [i \in Items |->
       IF i \in upload[c] THEN remoteSaved(items[i]) ELSE items[i]]
  /\ storage' = [i \in Items |->
       IF i \in upload[c]
         THEN [stored |-> TRUE, dirty |-> remoteSaved(items[i]).dirty]
         ELSE storage[i]]
  /\ events' = <<"SingleSyncCompleted">>

\* The receiver of the operation (syncOnlineOperation, L485-496) gets the
\* response of the round.
receiveResponse(c, status) ==
  /\ pc[c] = "running"
  /\ response' = [response EXCEPT ![c] = status]
  /\ IF status = 200
       THEN handleSuccessServerResponse(c)
       ELSE handleErrorServerResponse(c, status)
  /\ pc' = [pc EXCEPT ![c] = "responded"]
  /\ UNCHANGED <<strategy, mode, snapshot, nsd, presaved, inTime, upload,
                 ranRound, regDuring, locked, databaseLoaded,
                 completedInitialSync, syncInProgress, lastPreSyncSaveDate,
                 resolveQueue, spawnQueue, clock>>
  /\ UNCHANGED otherVars

\* ---------------------------------------------------------- end of a round
\* Variant of Resolved that takes the callbacks of the resolve queue as it is
\* when the round completes.
ResolvedFromCurrentQueue(c) ==
  {w \in Range(resolveQueue) : pc[w] = "waitResolve"}

\* The callbacks of the in-time resolve queue that a completing round resolves.
Resolved(c) == {w \in inTime[c] : pc[w] = "waitResolve"}

\* The call slots a sync() started by a completing round may take: the
\* in-time callbacks are resolved (L446-449) before that sync() is called.
EndSlots(c) == FreeSlots \cup Resolved(c)

\* SNSyncManager.popSpawnQueue: the entry whose sync is started, or 0.
popSpawnQueue == IF Len(spawnQueue) = 0 THEN 0 ELSE Head(spawnQueue)

\* SNSyncManager.sync L440-456 and handleSyncOperationCompletion L623-628:
\* operation.run() has returned. setDidEnd, the in-time callbacks are
\* resolved, a queued sync is started (popSpawnQueue, else the resolve queue),
\* and opStatus is reset, all before the call's next await. A sync() started
\* here runs up to its own first await (syncPc, syncCollect).
syncEnd(c) ==
  /\ pc[c] = "responded"
  /\ LET rest == subtractFromArray(resolveQueue, inTime[c])
         fromSpawn == popSpawnQueue # 0
         fromResolve == ~fromSpawn /\ Len(rest) > 0
         n == IF fromSpawn THEN popSpawnQueue
              ELSE IF EndSlots(c) # {} THEN Min(EndSlots(c)) ELSE c
         starts == fromSpawn \/ fromResolve
         W == Resolved(c)
     IN /\ fromResolve => EndSlots(c) # {}
        /\ resolveQueue' = rest
        /\ spawnQueue' = IF fromSpawn THEN Tail(spawnQueue) ELSE spawnQueue
        /\ pc' = [x \in Calls |->
             IF x = c THEN "ended"
             ELSE IF starts /\ x = n THEN syncPc
             ELSE IF x \in W THEN "idle"
             ELSE pc[x]]
        /\ strategy' = [x \in Calls |->
             IF starts /\ x = n /\ ~locked
               THEN (IF fromSpawn THEN TIMING_STRATEGY_FORCE_SPAWN_NEW
                                  ELSE TIMING_STRATEGY_RESOLVE_ON_NEXT)
             ELSE IF (fromSpawn /\ x = n) \/ x \in W
               THEN TIMING_STRATEGY_RESOLVE_ON_NEXT
             ELSE strategy[x]]
        /\ mode' = [x \in Calls |->
             IF starts /\ x = n THEN SYNC_MODE_DEFAULT ELSE mode[x]]
        /\ snapshot' = [x \in Calls |->
             IF starts /\ x = n /\ ~locked
               THEN [i \in Items |-> IF i \in itemsNeedingSync
                                       THEN items[i].dirtiedDate ELSE NoDate]
             ELSE snapshot[x]]
        /\ nsd' = [x \in Calls |->
             IF starts /\ x = n /\ ~locked
               THEN {i \in itemsNeedingSync :
                       neverSynced(items[i]) /\ items[i].deleted}
             ELSE nsd[x]]
        /\ ranRound' = [x \in Calls |->
             IF x = c THEN TRUE
             ELSE IF x \in W \/ (fromSpawn /\ x = n /\ locked) THEN FALSE
             ELSE ranRound[x]]
        /\ regDuring' = [x \in Calls |->
             IF x = c \/ (starts /\ x = n) THEN {}
             ELSE regDuring[x] \ {c}]
        /\ inTime' = [x \in Calls |->
             IF x = c THEN {} ELSE inTime[x] \ W]
  /\ presaved' = [presaved EXCEPT ![c] = {}]
  /\ upload' = [upload EXCEPT ![c] = {}]
  /\ response' = [response EXCEPT ![c] = NoResponse]
  /\ syncInProgress' = FALSE
  /\ opError' = FALSE
  /\ events' = <<"FullSyncCompleted">>
  /\ UNCHANGED <<locked, databaseLoaded, completedInitialSync,
                 lastPreSyncSaveDate, items, storage, syncToken, cursorToken,
                 clock>>
  /\ UNCHANGED otherVars

\* SNSyncManager.handleNeverSyncedDeleted (L457, L636-646): the items set apart
\* at pre-flight are mapped and persisted with dirty = false.
handleNeverSyncedDeleted(c) ==
  /\ items' = [i \in Items |->
       IF i \in nsd[c]
         THEN [dirty |-> FALSE, deleted |-> TRUE, synced |-> FALSE,
               dirtiedDate |-> snapshot[c][i], dirtiedAfterBegan |-> FALSE]
         ELSE items[i]]
  /\ storage' = [i \in Items |->
       IF i \in nsd[c]
         THEN [stored |-> TRUE, dirty |-> FALSE]
         ELSE storage[i]]

\* L459-471: an initial-mode sync, or items that still need sync, make the
\* call return another sync().
chains(c) ==
  \/ mode[c] = SYNC_MODE_INITIAL
  \/ {i \in Items : items'[i].dirty} # {}

\* SNSyncManager.sync L457-471: handleNeverSyncedDeleted, then an
\* initial-mode sync marks the initial sync completed, and the call returns
\* sync() or returns.
postSync(c) ==
  /\ pc[c] = "ended"
  /\ handleNeverSyncedDeleted(c)
  /\ IF mode[c] = SYNC_MODE_INITIAL
       THEN /\ completedInitialSync' = TRUE
            /\ events' = <<"InitialSyncCompleted">>
       ELSE /\ completedInitialSync' = completedInitialSync
            /\ events' = <<>>
  /\ IF chains(c) /\ ~locked
       THEN /\ pc' = [pc EXCEPT ![c] = "collected"]
            /\ strategy' = [strategy EXCEPT ![c] = TIMING_STRATEGY_RESOLVE_ON_NEXT]
            /\ mode' = [mode EXCEPT ![c] = SYNC_MODE_DEFAULT]
            /\ snapshot' = [snapshot EXCEPT ![c] =
                 [i \in Items |-> IF items'[i].dirty
                                    THEN items'[i].dirtiedDate ELSE NoDate]]
            /\ nsd' = [nsd EXCEPT ![c] =
                 {i \in Items : /\ items'[i].dirty
                                /\ neverSynced(items'[i])
                                /\ items'[i].deleted}]
            /\ UNCHANGED ranRound
       ELSE /\ pc' = [pc EXCEPT ![c] = "idle"]
            /\ strategy' = [strategy EXCEPT ![c] = TIMING_STRATEGY_RESOLVE_ON_NEXT]
            /\ mode' = [mode EXCEPT ![c] = SYNC_MODE_DEFAULT]
            /\ snapshot' = [snapshot EXCEPT ![c] = NoSnapshot]
            /\ nsd' = [nsd EXCEPT ![c] = {}]
            /\ ranRound' = [ranRound EXCEPT ![c] = FALSE]
  /\ UNCHANGED <<presaved, inTime, upload, response, regDuring, locked,
                 databaseLoaded, syncInProgress, opError, lastPreSyncSaveDate,
                 resolveQueue, spawnQueue, syncToken, cursorToken, clock>>
  /\ UNCHANGED otherVars

\* ------------------------------------------------------------ specification
CallStep(c) ==
  \/ syncQueued(c)
  \/ syncBegin(c)
  \/ syncThrow(c)
  \/ syncRun(c)
  \/ \E status \in ResponseStatuses : receiveResponse(c, status)
  \/ syncEnd(c)
  \/ postSync(c)

SyncNext ==
  \/ \E st \in TimingStrategies, md \in SyncModes : sync(st, md)
  \/ \E c \in Calls : CallStep(c)
  \/ lockSyncing
  \/ unlockSyncing
  \/ loadDatabasePayloads
  \/ \E i \in Items, setDeleted \in BOOLEAN : getResult(i, setDeleted)

Next ==
  \/ SyncNext
  \/ handleSignOut

Spec == Init /\ [][Next]_vars

\* The sync engine with no sign-out.
SpecSync == Init /\ [][SyncNext]_vars

\* The sync engine with no sign-out, started with items created as dirty.
SpecCreated == InitCreated /\ [][SyncNext]_vars

TypeOK ==
  /\ pc \in [Calls -> {"idle", "collected", "waitResolve", "waitSpawn",
                       "begun", "running", "responded", "ended", "thrown"}]
  /\ \A c \in Calls : inTime[c] \subseteq Calls /\ upload[c] \subseteq Items
  /\ clock \in 0..MaxClock

\* A completing round that starts a sync from the resolve queue finds a free
\* call slot: the bound on the calls never stops a round from ending.
EndNeverBlocked ==
  \A c \in Calls :
    (pc[c] = "responded" /\ popSpawnQueue = 0
       /\ Len(subtractFromArray(resolveQueue, inTime[c])) > 0)
      => EndSlots(c) # {}

C2_PersistBeforeNetwork ==
  \A c \in Calls :
    pc[c] \in {"running", "responded"} =>
      \A i \in upload[c] : i \in presaved[c] /\ storage[i].stored

\* C2, witness: a round is running whose upload holds a payload with no
\* dirtiedDate, saved by the call.
C2_Witness ==
  \E c \in Calls : pc[c] = "running" /\ \E i \in upload[c] :
    snapshot[c][i] = 0 /\ i \in presaved[c] /\ storage[i].stored

\* C3: a promise returned by a resolveOnNext sync() call made while a sync is
\* in progress is not resolved by the completion of the round that was
\* running when it was registered; the round that resolves it began after
\* the registration (it holds the resolver in its in-time queue), and the
\* resolver then leaves the resolve queue, so it is resolved at most once.
C3_ResolvedByLaterRound ==
  [][\A c \in Calls : (pc[c] = "responded" /\ pc'[c] = "ended") =>
       \A w \in Calls : (pc[w] = "waitResolve" /\ pc'[w] # "waitResolve") =>
         /\ c \notin regDuring[w]
         /\ w \in inTime[c]
         /\ w \notin Range(resolveQueue')
         /\ \A d \in Calls : w \notin inTime'[d]]_vars

\* C3, witness: a round has just completed, and a promise registered while a
\* sync was in progress is resolved.
C3_Witness ==
  /\ events = <<"FullSyncCompleted">>
  /\ \E c \in Calls, w \in Calls :
       pc[c] = "ended" /\ pc[w] = "idle" /\ 0 \in regDuring[w]

\* C4: every resolver registered by a resolveOnNext sync() call is eventually
\* resolved, whatever sync(), lockSyncing/unlockSyncing and handleSignOut
\* calls happen: a registered resolver stays registered until a completing
\* round that holds it resolves it, and when a round completes and leaves
\* resolvers in the queue, a sync is scheduled.
C4_EveryResolverResolved ==
  [][\A w \in Calls : pc[w] = "waitResolve" =>
       /\ \/ pc'[w] = "waitResolve"
          \/ \E c \in Calls :
               pc[c] = "responded" /\ pc'[c] = "ended" /\ w \in inTime[c]
       /\ (pc'[w] = "waitResolve"
             /\ \E c \in Calls : pc[c] = "responded" /\ pc'[c] = "ended")
            => \E n \in Calls : pc'[n] \in {"collected", "begun", "running",
                                             "responded"}]_vars

\* C5: each forceSpawnNew sync() call made while a sync is in progress gets a
\* sync round of its own, and its promise is resolved only after a round
\* executed for it has completed: an entry leaves the spawn queue only by
\* having its sync started, never by having its promise settled.
C5_SpawnEntryGetsOwnRound ==
  [][\A w \in Calls : (pc[w] = "waitSpawn" /\ 0 \in regDuring[w]) =>
       pc'[w] \in {"waitSpawn", "collected"}]_vars

\* C6: no call to sync(), for any timing strategy, any mode and any engine
\* state, throws or returns a rejected promise.
C6_SyncNeverThrows == \A c \in Calls : pc[c] # "thrown"

\* C7: when the promise of a sync() call that ran a round resolves, every
\* item that was dirty at the call's pre-flight and was not modified since is
\* no longer dirty. Stated for the calls whose round was a default-mode
\* round (an upload of the dirty items) and whose promise resolves at the
\* end of that round.
C7_ResolvedMeansClean ==
  [][\A c \in Calls :
       (pc[c] = "ended" /\ mode[c] = SYNC_MODE_DEFAULT /\ pc'[c] = "idle") =>
       \A i \in SnapItems(c) :
         items'[i].dirtiedDate = snapshot[c][i] => ~items'[i].dirty]_vars

\* An initial-mode round uploads nothing, and completedInitialSync, once true,
\* stays true.
InitialUploadsNothing(c) ==
  /\ (pc[c] = "begun" /\ pc'[c] = "running" /\ mode[c] = SYNC_MODE_INITIAL)
       => upload'[c] = {}
  /\ (pc[c] \in {"running", "responded"} /\ mode[c] = SYNC_MODE_INITIAL)
       => upload[c] = {}
  /\ completedInitialSync => completedInitialSync'

\* The call c finishes an initial-mode sync in this step.
FinishesInitial(c) ==
  pc[c] = "ended" /\ mode[c] = SYNC_MODE_INITIAL /\ pc'[c] # "ended"

C10_ErrorResponse ==
  [][\A c \in Calls :
       (pc[c] = "running" /\ pc'[c] = "responded" /\ response'[c] # 200) =>
         /\ events' = IF response'[c] = INVALID_SESSION_RESPONSE_STATUS
                        THEN <<"InvalidSession", "SyncError">>
                        ELSE <<"SyncError">>
         /\ applicationEventForSyncEvent("SyncError") = "FailedSync"
         /\ applicationEventForSyncEvent("InvalidSession") = "InvalidSyncSession"
         /\ syncToken' = syncToken
         /\ cursorToken' = cursorToken
         /\ items' = items
         /\ storage' = storage
         /\ \A i \in upload[c] : items[i].dirty => items'[i].dirty]_vars

\* C10, witness: a round that uploaded a dirty item has received a 401
\* response; both events were notified and the item is still dirty.
C10_Witness ==
  \E c \in Calls :
    /\ pc[c] = "responded"
    /\ response[c] = INVALID_SESSION_RESPONSE_STATUS
    /\ events = <<"InvalidSession", "SyncError">>
    /\ \E i \in upload[c] : items[i].dirty
    /\ syncToken = 0

\* ------------------------------------------------- handling of a response
\* The writes queued before a response was received belong to earlier rounds.
earlier(ws) == [k \in 1..Len(ws) |-> [ws[k] EXCEPT !.current = FALSE]]

\* SNSyncManager.setLastSyncToken: the write handed to the storage back-end.
setLastSyncToken(token) ==
  [key |-> "LastSyncToken", value |-> token, current |-> TRUE]

\* SNSyncManager.setPaginationToken: setValue, or removeValue when the
\* response has no pagination token.
setPaginationToken(token) ==
  [key |-> "PaginationToken", value |-> token, current |-> TRUE]

\* storageManager.savePayloads of the payloads of one collection.
savePayloads(r) ==
  [key |-> "payloads", value |-> r.lastSyncToken, current |-> TRUE]

\* handleSuccessServerResponse, L551-552: the two token writes are started
\* and not awaited.
receiveSuccessResponse(r) ==
  /\ hpc = "idle"
  /\ Len(writes) + 2 <= MaxPendingWrites
  /\ resp' = r
  /\ collections' = r.collections
  /\ writes' = earlier(writes) \o <<setLastSyncToken(r.lastSyncToken),
                                    setPaginationToken(r.paginationToken)>>
  /\ hpc' = "resolving"
  /\ requested' = <<>>
  /\ notified' = <<>>
  /\ UNCHANGED <<disk, stateVars, vars, recoveryVars, migrationVars, itemVars>>

\* handleSuccessServerResponse, L596-598, and persistPayloads: the payloads of
\* a collection are handed to the storage back-end and the write is awaited.
persistPayloads ==
  /\ hpc = "resolving"
  /\ collections > 0
  /\ Len(writes) < MaxPendingWrites
  /\ writes' = Append(writes, savePayloads(resp))
  /\ hpc' = "persisting"
  /\ requested' = <<>>
  /\ notified' = <<>>
  /\ UNCHANGED <<resp, collections, disk, stateVars, vars, recoveryVars,
                 migrationVars, itemVars>>

\* The awaited write of the payloads has completed.
payloadsSaved ==
  \A k \in 1..Len(writes) : ~(writes[k].key = "payloads" /\ writes[k].current)

persisted ==
  /\ hpc = "persisting"
  /\ payloadsSaved
  /\ collections' = collections - 1
  /\ hpc' = "resolving"
  /\ requested' = <<>>
  /\ notified' = <<>>
  /\ UNCHANGED <<resp, storageVars, stateVars, vars, recoveryVars,
                 migrationVars, itemVars>>

\* handleSuccessServerResponse, L601-603
notifySingleSyncCompleted ==
  /\ hpc = "resolving"
  /\ collections = 0
  /\ notified' = <<"SingleSyncCompleted">>
  /\ hpc' = "notified"
  /\ requested' = <<>>
  /\ UNCHANGED <<resp, collections, storageVars, stateVars, vars, recoveryVars,
                 migrationVars, itemVars>>

\* The storage back-end completes its writes one at a time, in their order.
completeWrite ==
  /\ writes # <<>>
  /\ disk' = applyWrite(disk, Head(writes))
  /\ writes' = Tail(writes)
  /\ requested' = <<>>
  /\ notified' = <<>>
  /\ UNCHANGED <<hpc, resp, collections, stateVars, vars, recoveryVars,
                 migrationVars, itemVars>>

\* ----------------------------------------------------- integrity checking
\* SNSyncManager.computeDataIntegrityHash: the digest, or null when computing
\* it threw (L668-671).
ClientHashes == Hashes \cup {NoHash}

\* SyncState.setIntegrityHashes: a mismatch adds to the discordance, and the
\* state is out of sync from maxDiscordance mismatches in a row on; equal
\* hashes end the discordance.
setIntegrityHashes(clientHash, serverHash) ==
  /\ hashes' = [clientHash |-> clientHash, serverHash |-> serverHash]
  /\ IF clientHash = serverHash
       THEN /\ discordance' = 0
            /\ outOfSync' = FALSE
            /\ notified' = IF outOfSync THEN <<"ExitOutOfSync">> ELSE <<>>
       ELSE /\ discordance' = discordance + 1
            /\ outOfSync' = (outOfSync \/ discordance + 1 >= DEFAULT_MAX_DISCORDANCE)
            /\ notified' =
                 IF ~outOfSync /\ discordance + 1 >= DEFAULT_MAX_DISCORDANCE
                   THEN <<"EnterOutOfSync">> ELSE <<>>

\* SyncState.clearIntegrityHashes
clearIntegrityHashes ==
  /\ hashes' = NoHashes
  /\ notified' = <<>>
  /\ UNCHANGED <<discordance, outOfSync>>

\* SyncState.needsSync, read after the hashes were set: a discordance that has
\* not yet reached maxDiscordance asks for another integrity check.
needsSync == discordance' > 0 /\ discordance' < DEFAULT_MAX_DISCORDANCE

\* operation.done: the response has no pagination token, the operation makes
\* no further request.
operationDone(r) == r.paginationToken = NoToken

\* Variant of checksIntegrity that takes every response as integrity-checked.
checksIntegrityAlways(r) == TRUE

\* handleSuccessServerResponse, L605
checksIntegrity(r) == r.checkIntegrity

\* The options of the sync() call of L612-615.
integritySync ==
  [checkIntegrity |-> TRUE, timingStrategy |-> TIMING_STRATEGY_FORCE_SPAWN_NEW]

\* handleSuccessServerResponse, L605-619
handleIntegrity ==
  /\ hpc = "notified"
  /\ IF checksIntegrity(resp)
       THEN /\ \E clientHash \in ClientHashes :
                 /\ clientHash = resp.integrityHash \/ discordance < MaxMismatches
                 /\ setIntegrityHashes(clientHash, resp.integrityHash)
            /\ requested' = IF needsSync /\ operationDone(resp)
                              THEN <<integritySync>> ELSE <<>>
       ELSE /\ clearIntegrityHashes
            /\ requested' = <<>>
  /\ hpc' = "idle"
  /\ UNCHANGED <<resp, collections, storageVars, vars, recoveryVars,
                 migrationVars, itemVars>>

ResponseNext ==
  \/ \E r \in Responses : receiveSuccessResponse(r)
  \/ persistPayloads
  \/ persisted
  \/ notifySingleSyncCompleted
  \/ handleIntegrity
  \/ completeWrite
  \/ handleSignOut

\* The handling of the responses of successive sync operations.
SpecResponse == Init /\ [][ResponseNext]_<<vars, otherVars>>

TypeOKResponse ==
  /\ hpc \in {"idle", "resolving", "persisting", "notified"}
  /\ Len(writes) <= MaxPendingWrites
  /\ discordance \in 0..MaxMismatches + 1
  /\ collections \in 0..MaxCollections

\* ------------------------------------------------------------ key recovery
\* The arrivals of an items key: the source of the emission.
PayloadSources == {"LocalChanged", "RemoteRetrieved"}

\* The answers to a password challenge: null, a password that does not
\* decrypt (or sign in), the password.
ChallengeResponses == {"cancel", "wrong", "right"}

\* itemManager.nonErroredItemsForContentType(ContentType.ItemsKey)
nonErroredItemsKeys == {k \in Keys : itemState[k] = "valid"}

created_at(k) == k

\* @Lib/protocol/versions
leftVersionGreaterThanOrEqualToRight(left, right) == left >= right

\* SNKeyRecoveryService.serverKeyParamsAreSafe
serverKeyParamsAreSafe(clientParams) ==
  leftVersionGreaterThanOrEqualToRight(serverParams.version,
                                       clientParams.version)

\* protocolService.hasAccount: the root key has account key params.
hasAccount == rootKeyParams # NoParams

\* beginProcessingQueue, L508-510
credentialsMissing == ~hasAccount /\ ~hasPasscode

\* What a step did, or the answer it was given; key is 0 where no key is
\* concerned.
did(type, k) == [type |-> type, key |-> k]

\* syncService.isOutOfSync
isOutOfSync == outOfSync

\* beginProcessingQueue, L547-549
syncIfOutOfSync == IF isOutOfSync THEN {did("sync", 0)} ELSE {}

\* Variant of saveToUndecryptables that persists nothing.
saveNothing(keys) == undecryptables

\* SNKeyRecoveryService.saveToUndecryptables
saveToUndecryptables(keys) == undecryptables \cup keys

\* The item observer of the constructor (L253-266), with the ignored-key rule
\* of the payload manager: an errored payload does not replace a copy that
\* decrypts.  A payload that arrives from elsewhere decrypts when its embedded
\* key params are those of the root key; a local change is made decrypted.  Ignored keys are persisted (handleIgnoredItemsKeys), errored
\* inserted or changed keys are not (handleUndecryptableItemsKeys); both wait
\* for their embedded key params in addKeysToQueue.
emitItemsKey(k, keyParams, source) ==
  LET errorDecrypting == source # "LocalChanged" /\ keyParams # rootKeyParams
      ignored == errorDecrypting /\ itemState[k] = "valid"
      handled == errorDecrypting /\ source # "LocalChanged"
  IN /\ handled =>
          Len(decryptionQueue) + Cardinality(pendingAdds)
            + (IF cur = NoItem THEN 0 ELSE 1) < MaxQueue
     /\ itemState' = [itemState EXCEPT ![k] =
          IF ignored THEN @ ELSE IF errorDecrypting THEN "errored" ELSE "valid"]
     /\ undecryptables' =
          IF handled /\ ignored THEN saveToUndecryptables({k})
                                ELSE undecryptables
     /\ pendingAdds' =
          IF handled
            THEN pendingAdds \cup {[key |-> k, keyParams |-> keyParams,
                                    callback |-> ignored]}
            ELSE pendingAdds
     /\ happened' = IF handled /\ ignored THEN {did("persisted", k)}
                    ELSE IF handled THEN {did("undecryptable", k)} ELSE {}
     /\ UNCHANGED <<decryptionQueue, isProcessingQueue, kpc, cur,
                    replacesRootKey, dpc, rootKeyParams, serverParams,
                    hasPasscode, vars, responseVars, migrationVars, itemVars>>

\* addKeysToQueue (L459-479) followed by the call of beginProcessingQueue
\* (L327, L332) up to its first await (L490-495).
addKeysToQueue(a) ==
  /\ a \in pendingAdds
  /\ pendingAdds' = pendingAdds \ {a}
  /\ decryptionQueue' = Append(decryptionQueue, a)
  /\ IF isProcessingQueue
       THEN UNCHANGED <<isProcessingQueue, kpc>>
       ELSE isProcessingQueue' = TRUE /\ kpc' = "fetching"
  /\ happened' = {did("enqueued", a.key)}
  /\ UNCHANGED <<itemState, undecryptables, cur, replacesRootKey,
                 dpc, rootKeyParams, serverParams, hasPasscode, vars,
                 responseVars, migrationVars, itemVars>>

\* beginProcessingQueue, L495-512: the server's key params are fetched once
\* (reply NoParams: the request failed) and recorded; without credentials the
\* sign-in with the params of the first queued key is prompted for.  With no
\* queued key, queueItem is undefined and queueItem.keyParams (L513) throws.
getAccountKeyParams(reply) ==
  /\ kpc = "fetching"
  /\ serverParams' =
       IF serverParams = NoParams /\ hasAccount /\ reply # NoParams
         THEN reply ELSE serverParams
  /\ IF credentialsMissing
       THEN IF decryptionQueue = <<>>
              THEN kpc' = "thrown" /\ cur' = NoItem
              ELSE kpc' = "signin" /\ cur' = Head(decryptionQueue)
       ELSE kpc' = "loop" /\ cur' = NoItem
  /\ happened' = IF serverParams' # serverParams THEN {did("recorded", 0)}
                                                 ELSE {}
  /\ UNCHANGED <<itemState, undecryptables, pendingAdds,
                 decryptionQueue, isProcessingQueue, replacesRootKey, dpc,
                 rootKeyParams, hasPasscode, vars, responseVars, migrationVars,
                 itemVars>>

\* SNKeyRecoveryService.popQueueForKeyParams: the queue items it takes out.
matchingKeyParams(keyParams) ==
  SelectSeq(decryptionQueue, LAMBDA q : q.keyParams = keyParams)

\* SNKeyRecoveryService.popQueueForKeyParams: the queue it leaves.
popQueueForKeyParams(keyParams) ==
  SelectSeq(decryptionQueue, LAMBDA q : q.keyParams # keyParams)

\* beginProcessingQueue, L512-522, with performServerSignIn: the sign-in with
\* the key params of the first queued key.  A sign-in that succeeds gives the
\* root key; the keys that share its params are decrypted and emitted, and
\* what handleDecryptionOfAllKeysMatchingCorrectRootKey returns is not used.
signInWithKeyParams(r) ==
  /\ kpc = "signin"
  /\ IF r = "right"
       THEN LET keyParams == cur.keyParams
                matching == Range(matchingKeyParams(keyParams))
            IN /\ rootKeyParams' = keyParams
               /\ decryptionQueue' = popQueueForKeyParams(keyParams)
               /\ itemState' = [k \in Keys |->
                    IF k \in {m.key : m \in matching} THEN "valid"
                                                       ELSE itemState[k]]
               /\ happened' = {did("setRootKey", 0)}
                                \cup {did("emitted", m.key) : m \in matching}
               /\ kpc' = "loop"
               /\ cur' = NoItem
       ELSE /\ kpc' = IF r = "cancel" THEN "loop" ELSE "signin"
            /\ cur' = IF r = "cancel" THEN NoItem ELSE cur
            /\ happened' = {}
            /\ UNCHANGED <<rootKeyParams, decryptionQueue, itemState>>
  /\ UNCHANGED <<undecryptables, pendingAdds, isProcessingQueue,
                 replacesRootKey, dpc, serverParams, hasPasscode, vars,
                 responseVars, migrationVars, itemVars>>

\* popQueueItem, L584-585
isNewerThanLatest(k) ==
  \A j \in nonErroredItemsKeys : created_at(k) > created_at(j)

\* popQueueItem, L568-586.  The last condition of L568-574 is
\* serverKeyParamsAreSafe(this.serverParams).
computeReplacesRootKey(q) ==
  /\ serverParams # NoParams
  /\ rootKeyParams # NoParams
  /\ rootKeyParams # serverParams
  /\ q.keyParams = serverParams
  /\ serverKeyParamsAreSafe(serverParams)
  /\ isNewerThanLatest(q.key)

\* beginProcessingQueue, L523-524, and popQueueItem, L553-603: the first item
\* is taken from the queue and its password is prompted for.
popQueueItem ==
  /\ kpc = "loop"
  /\ decryptionQueue # <<>>
  /\ cur' = Head(decryptionQueue)
  /\ decryptionQueue' = Tail(decryptionQueue)
  /\ replacesRootKey' = computeReplacesRootKey(Head(decryptionQueue))
  /\ kpc' = "prompt"
  /\ happened' = {did("prompted", Head(decryptionQueue).key)}
  /\ UNCHANGED <<itemState, undecryptables, pendingAdds,
                 isProcessingQueue, dpc, rootKeyParams, serverParams,
                 hasPasscode, vars, responseVars, migrationVars, itemVars>>

\* Variant of readdQueueItem that does not put the item back.
dropQueueItem(queueItem) == decryptionQueue

\* SNKeyRecoveryService.readdQueueItem
readdQueueItem(queueItem) == <<queueItem>> \o decryptionQueue

\* The callback handleIgnoredItemsKeys gives to addKeysToQueue (L320-325).
removeFromUndecryptables(record, qs) ==
  record \ {q.key : q \in {m \in qs : m.callback}}

\* popQueueItem, L604-648, with
\* handleDecryptionOfAllKeysMatchingCorrectRootKey (getWrappingKeyIfApplicable
\* left out): the answer to the challenge of cur.
promptForChallengeResponse(r) ==
  /\ kpc = "prompt"
  /\ kpc' = "loop"
  /\ cur' = NoItem
  /\ replacesRootKey' = FALSE
  /\ CASE r = "cancel" ->
            /\ happened' = {did("cancel", cur.key)}
                 \cup (IF cur.callback THEN {did("callbackFalse", cur.key)}
                                       ELSE {})
            /\ UNCHANGED <<decryptionQueue, rootKeyParams, itemState,
                           undecryptables>>
       [] r = "wrong" ->
            /\ decryptionQueue' = readdQueueItem(cur)
            /\ happened' = {did("wrong", cur.key)}
            /\ UNCHANGED <<rootKeyParams, itemState, undecryptables>>
       [] r = "right" ->
            LET keyParams == cur.keyParams
                matching == Range(matchingKeyParams(keyParams))
                decrypted == {cur} \cup matching
            IN /\ rootKeyParams' =
                    IF replacesRootKey THEN keyParams ELSE rootKeyParams
               /\ decryptionQueue' = popQueueForKeyParams(keyParams)
               /\ itemState' = [k \in Keys |->
                    IF k \in {m.key : m \in decrypted} THEN "valid"
                                                        ELSE itemState[k]]
               /\ undecryptables' =
                    removeFromUndecryptables(undecryptables, decrypted)
               /\ happened' =
                    (IF replacesRootKey THEN {did("setRootKey", cur.key)}
                                        ELSE {})
                      \cup {did("right", cur.key)}
                      \cup {did("emitted", m.key) : m \in decrypted}
  /\ UNCHANGED <<pendingAdds, isProcessingQueue, dpc,
                 serverParams, hasPasscode, vars, responseVars, migrationVars,
                 itemVars>>

\* beginProcessingQueue, L523-530: the loop finds the queue empty and leaves
\* the rest to the callback of queuePromise.
queueEmptied ==
  /\ kpc = "loop"
  /\ decryptionQueue = <<>>
  /\ kpc' = "drained"
  /\ happened' = {}
  /\ UNCHANGED <<itemState, undecryptables, pendingAdds,
                 decryptionQueue, isProcessingQueue, cur, replacesRootKey, dpc,
                 rootKeyParams, serverParams, hasPasscode, vars, responseVars,
                 migrationVars, itemVars>>

\* beginProcessingQueue, L536-539
needsServerSignIn ==
  /\ serverParams # NoParams
  /\ serverKeyParamsAreSafe(rootKeyParams)
  /\ serverParams # rootKeyParams

\* beginProcessingQueue, L530-550: the callback of queuePromise.  One such
\* callback is followed at a time.
queuePromiseThen ==
  /\ kpc = "drained"
  /\ dpc = "none"
  /\ isProcessingQueue' = FALSE
  /\ kpc' = "idle"
  /\ IF needsServerSignIn
       THEN dpc' = "signin" /\ happened' = {did("signInPrompted", 0)}
       ELSE dpc' = "none" /\ happened' = syncIfOutOfSync
  /\ UNCHANGED <<itemState, undecryptables, pendingAdds,
                 decryptionQueue, cur, replacesRootKey, rootKeyParams,
                 serverParams, hasPasscode, vars, responseVars, migrationVars,
                 itemVars>>

\* performServerSignIn(this.serverParams) of L544 and L547-549: a sign-in
\* that succeeds makes the server's params the client's.
performServerSignIn(r) ==
  /\ dpc = "signin"
  /\ dpc' = IF r = "wrong" THEN "signin" ELSE "none"
  /\ rootKeyParams' = IF r = "right" THEN serverParams ELSE rootKeyParams
  /\ happened' = (IF r = "right" THEN {did("signedIn", 0)} ELSE {})
                   \cup (IF r = "wrong" THEN {} ELSE syncIfOutOfSync)
  /\ UNCHANGED <<itemState, undecryptables, pendingAdds,
                 decryptionQueue, isProcessingQueue, kpc, cur, replacesRootKey,
                 serverParams, hasPasscode, vars, responseVars, migrationVars,
                 itemVars>>

RecoveryNext ==
  \/ \E k \in Keys, keyParams \in KeyParams, source \in PayloadSources :
       emitItemsKey(k, keyParams, source)
  \/ \E a \in pendingAdds : addKeysToQueue(a)
  \/ \E reply \in KeyParams \cup {NoParams} : getAccountKeyParams(reply)
  \/ \E r \in ChallengeResponses : signInWithKeyParams(r)
  \/ popQueueItem
  \/ \E r \in ChallengeResponses : promptForChallengeResponse(r)
  \/ queueEmptied
  \/ queuePromiseThen
  \/ \E r \in ChallengeResponses : performServerSignIn(r)

\* The sync engine as key recovery finds it: in sync, or out of sync after
\* maxDiscordance mismatches.
InSyncOrOutOfSync ==
  \/ InitState
  \/ /\ discordance = DEFAULT_MAX_DISCORDANCE
     /\ outOfSync = TRUE
     /\ hashes = [clientHash |-> 1, serverHash |-> 2]

\* Key recovery of a client with or without account and passcode.
InitKeys ==
  /\ InitEngine
  /\ items = [i \in Items |-> CleanItem]
  /\ InitHandler
  /\ InSyncOrOutOfSync
  /\ InitMigration
  /\ InitItems
  /\ InitQueue
  /\ itemState = [k \in Keys |-> "none"]
  /\ rootKeyParams \in KeyParams \cup {NoParams}
  /\ hasPasscode \in BOOLEAN

SpecRecovery == InitKeys /\ [][RecoveryNext]_<<vars, otherVars>>

TypeOKRecovery ==
  /\ kpc \in {"idle", "fetching", "signin", "loop", "prompt", "drained",
             "thrown"}
  /\ dpc \in {"none", "signin"}
  /\ Len(decryptionQueue) <= MaxQueue
  /\ (kpc # "idle") <=> isProcessingQueue
  /\ (kpc \in {"signin", "prompt"}) <=> (cur # NoItem)

\* C11: when SingleSyncCompleted is notified for a response, every storage
\* write started while handling that response (the sync token, the pagination
\* token, the reconciled payloads) has completed.
C11_WritesCompletedBeforeAck ==
  "SingleSyncCompleted" \in Range(notified)
    => \A k \in 1..Len(writes) : ~writes[k].current

\* What does hold: the awaited writes, those of the payloads, have completed
\* when SingleSyncCompleted is notified, and with them the token writes of a
\* response that had payloads to persist.
C11_PayloadWritesCompleted ==
  "SingleSyncCompleted" \in Range(notified)
    => /\ payloadsSaved
       /\ resp.collections > 0 => \A k \in 1..Len(writes) : ~writes[k].current

Triggered == pendingAdds' \ pendingAdds

\* The queue item a step appends to the decryption queue.
Enqueues(a) ==
  /\ Len(decryptionQueue') = Len(decryptionQueue) + 1
  /\ decryptionQueue' = Append(decryptionQueue, a)

\* Keys enter the queue only from addKeysToQueue, after they were observed
\* (a failed key is put back at the front).
EnqueuedAfterObserved ==
  Len(decryptionQueue') > Len(decryptionQueue)
    => \/ \E a \in pendingAdds : Enqueues(a)
       \/ kpc = "prompt" /\ decryptionQueue' = <<cur>> \o decryptionQueue

\* C13: every items key that triggers key recovery (it arrives errored from a
\* source other than LocalChanged, whether inserted, changed or ignored) is in
\* the undecryptables record before it is enqueued for decryption.
C13_PersistedBeforeEnqueued ==
  [][/\ \A a \in Triggered : a.key \in undecryptables'
     /\ EnqueuedAfterObserved]_<<vars, otherVars>>

\* The part of C13 that holds when each update of the record is one step: an
\* errored items key that is ignored because the local copy decrypts is in the
\* undecryptables record before it is enqueued; an errored key that was
\* inserted or changed is enqueued with no write to the record.
C13_IgnoredPersistedBeforeEnqueued ==
  [][/\ \A a \in Triggered :
          IF itemState[a.key] = "valid"
            THEN /\ a.callback
                 /\ a.key \in undecryptables'
                 /\ itemState' = itemState
            ELSE /\ ~a.callback
                 /\ undecryptables' = undecryptables
                 /\ itemState'[a.key] = "errored"
     /\ EnqueuedAfterObserved]_<<vars, otherVars>>

\* An ignored key has been enqueued, and the record holds it.
C13_Witness ==
  /\ decryptionQueue # <<>>
  /\ happened = {did("enqueued", decryptionQueue[Len(decryptionQueue)].key)}
  /\ decryptionQueue[Len(decryptionQueue)].callback
  /\ decryptionQueue[Len(decryptionQueue)].key \in undecryptables
  /\ itemState[decryptionQueue[Len(decryptionQueue)].key] = "valid"

\* The answer to the challenge of cur is handled: popQueueItem goes on after
\* L601.
Answered == kpc = "prompt" /\ kpc' = "loop"

\* C14: with local credentials, the root key is replaced while a queued key
\* is processed only if the password decrypts the key, the key's params are
\* the recorded server params and the key was created later than every
\* non-errored local items key; any other successful decryption emits the key
\* and leaves the root key as it is.
C14_ReplacesRootKeyOnlyIfNewest ==
  [][Answered =>
       /\ rootKeyParams' # rootKeyParams =>
            /\ itemState'[cur.key] = "valid"
            /\ did("emitted", cur.key) \in happened'
            /\ cur.keyParams = serverParams
            /\ rootKeyParams' = serverParams
            /\ isNewerThanLatest(cur.key)
       /\ did("emitted", cur.key) \in happened' => itemState'[cur.key] = "valid"
    ]_<<vars, otherVars>>

\* What holds of the replacement: the conditions are those found when the key
\* was taken from the queue, before the password was prompted for.
C14_ConditionsWhenPopped ==
  [][/\ (kpc = "loop" /\ kpc' = "prompt" /\ replacesRootKey') =>
          /\ cur'.keyParams = serverParams
          /\ isNewerThanLatest(cur'.key)
     /\ (Answered /\ rootKeyParams' # rootKeyParams) =>
          /\ replacesRootKey
          /\ itemState'[cur.key] = "valid"
          /\ cur.keyParams = serverParams
    ]_<<vars, otherVars>>

\* C15: the server's key params are recorded, and used to replace the root
\* key or for the corrective sign-in, only if their version is at least the
\* version of the client's key params.
C15_ServerParamsSafe ==
  [][/\ serverParams' # serverParams =>
          serverParams'.version >= rootKeyParams.version
     /\ (Answered /\ rootKeyParams' # rootKeyParams) =>
          serverParams.version >= rootKeyParams.version
     /\ (dpc = "none" /\ dpc' = "signin") =>
          serverParams.version >= rootKeyParams.version
    ]_<<vars, otherVars>>

\* The last part of C15 alone: key params of a lower version than the
\* client's never lead to setRootKey.
C15_LowerVersionNeverSetsRootKey ==
  [][(Answered /\ rootKeyParams' # rootKeyParams) =>
       serverParams.version >= rootKeyParams.version]_<<vars, otherVars>>

\* C16: a password that does not decrypt the key puts the key back in the
\* queue, where it is the next to be prompted for, and changes neither the
\* root key nor the items nor the undecryptables record; a cancelled prompt
\* takes the key out of the queue for good and tells its callback that the
\* decryption did not succeed.
C16_FailedIsRetriedCancelledIsNot ==
  [][/\ (Answered /\ did("wrong", cur.key) \in happened') =>
          /\ decryptionQueue' = <<cur>> \o decryptionQueue
          /\ UNCHANGED <<rootKeyParams, itemState, undecryptables>>
          /\ \A k \in Keys : did("emitted", k) \notin happened'
          /\ kpc' = "loop"
     /\ (Answered /\ did("cancel", cur.key) \in happened') =>
          /\ decryptionQueue' = decryptionQueue
          /\ cur.callback => did("callbackFalse", cur.key) \in happened'
          /\ UNCHANGED <<rootKeyParams, itemState, undecryptables>>
          /\ \A k \in Keys : did("emitted", k) \notin happened'
     /\ (kpc = "loop" /\ kpc' # "loop") =>
          IF decryptionQueue = <<>>
            THEN kpc' = "drained"
            ELSE kpc' = "prompt" /\ cur' = Head(decryptionQueue)
    ]_<<vars, otherVars>>

\* A key whose password failed is prompted for again.
C16_Witness ==
  /\ kpc = "prompt"
  /\ happened = {did("prompted", cur.key)}
  /\ itemState[cur.key] = "valid"
  /\ cur.key \in undecryptables
  /\ cur.callback
  /\ decryptionQueue # <<>>
  /\ decryptionQueue[1].key # cur.key
  /\ rootKeyParams # NoParams

\* A queue item is pending: it is in the queue or its challenge is
\* outstanding.
ItemPending == decryptionQueue # <<>> \/ cur # NoItem

\* C17: the callback of the drained queue prompts the corrective sign-in
\* exactly when server params are recorded and differ from the client's, and
\* an integrity sync is requested when the engine is out of sync; neither
\* happens while a queue item is pending.
C17_AfterQueueDrained ==
  [][/\ (dpc = "none" /\ dpc' = "signin") => ~ItemPending
     /\ did("sync", 0) \in happened' => ~ItemPending
     /\ (kpc = "drained" /\ kpc' = "idle") =>
          (dpc' = "signin"
             <=> serverParams # NoParams /\ serverParams # rootKeyParams)
     /\ ((kpc = "drained" /\ kpc' = "idle" /\ dpc' = "none")
           \/ (dpc = "signin" /\ dpc' = "none")) =>
          (did("sync", 0) \in happened' <=> isOutOfSync)
    ]_<<vars, otherVars>>

\* The last part of C17 alone.
C17_NotWhileItemPending ==
  [][/\ (dpc = "none" /\ dpc' = "signin") => ~ItemPending
     /\ did("sync", 0) \in happened' => ~ItemPending]_<<vars, otherVars>>

\* C18: one run of the processing loop and one password challenge at a time;
\* a key that is in the queue has a running loop that will process it.
C18_OneLoopOneChallenge ==
  /\ ~(kpc \in {"prompt", "signin"} /\ dpc = "signin")
  /\ decryptionQueue # <<>> => isProcessingQueue

\* The parts of C18, each alone.
C18_OneChallenge == ~(kpc \in {"prompt", "signin"} /\ dpc = "signin")

C18_QueuedKeyHasLoop == decryptionQueue # <<>> => isProcessingQueue

\* C19: a key leaves the undecryptables record exactly when key recovery has
\* decrypted and emitted it.
C19_RemovedExactlyWhenDecrypted ==
  [][\A k \in Keys :
       /\ (k \in undecryptables /\ k \notin undecryptables') =>
            did("emitted", k) \in happened'
       /\ (k \in undecryptables /\ did("emitted", k) \in happened') =>
            k \notin undecryptables']_<<vars, otherVars>>

\* The part of C19 about the keys decrypted by their own prompt or with
\* another key, when every queue item of the key has the callback.
C19_RemovedByCallback ==
  [][\A k \in Keys :
       /\ (k \in undecryptables /\ k \notin undecryptables') =>
            did("emitted", k) \in happened' /\ Answered
       /\ (Answered /\ k \in undecryptables /\ did("emitted", k) \in happened'
             /\ \A q \in Range(decryptionQueue) \cup {cur} :
                  q.key = k => q.callback) =>
            k \notin undecryptables']_<<vars, otherVars>>

\* =============================================================== migrations
\* SNMigrationService (migration_service.ts L22-145).

\* The static version() of a migration class.
version(c) == migrationImports[c]

\* compareSemVersions(left, right): -1, 0 or 1 as left is lower than, equal
\* to or greater than right; the major numbers decide, then the minor
\* numbers, then the patch numbers.
RECURSIVE compareParts(_, _, _)
compareParts(left, right, i) ==
  IF i > Len(left) THEN 0
  ELSE IF left[i] < right[i] THEN -1
  ELSE IF left[i] > right[i] THEN 1
  ELSE compareParts(left, right, i + 1)

compareSemVersions(left, right) == compareParts(left, right, 1)

isLeftVersionGreaterThanRight(left, right) ==
  compareSemVersions(left, right) = 1

isRightVersionGreaterThanLeft(left, right) ==
  compareSemVersions(left, right) = -1

\* Array.prototype.sort with the comparator of L118-120, as a stable
\* insertion sort: c goes behind every class that does not compare greater.
RECURSIVE insertClass(_, _)
insertClass(sorted, c) ==
  IF sorted = <<>> THEN <<c>>
  ELSE IF compareSemVersions(version(Head(sorted)), version(c)) <= 0
       THEN <<Head(sorted)>> \o insertClass(Tail(sorted), c)
       ELSE <<c>> \o sorted

RECURSIVE sortClasses(_)
sortClasses(classes) ==
  IF classes = <<>> THEN <<>>
  ELSE insertClass(sortClasses(SubSeq(classes, 1, Len(classes) - 1)),
                   classes[Len(classes)])

\* L114-120: the exported classes sorted by version.
migrationClasses == sortClasses([c \in MigrationClasses |-> c])

\* L121-129: the loop over the sorted classes.
RECURSIVE resultingClasses(_, _)
resultingClasses(classes, stored) ==
  IF classes = <<>> THEN <<>>
  ELSE LET migrationVersion == version(Head(classes))
           rest == resultingClasses(Tail(classes), stored)
       IN IF migrationVersion = stored THEN rest
          ELSE IF isRightVersionGreaterThanLeft(stored, migrationVersion)
               THEN <<Head(classes)>> \o rest
               ELSE rest

getRequiredMigrations(stored) == resultingClasses(migrationClasses, stored)

\* L133-137: one migration per class, in the order of the classes.
instantiateMigrationClasses(classes) == classes

\* BaseMigration.preRun: a storage without a version gets one (that of
\* this build for a new installation, an earlier one for a legacy client).
preRun ==
  storedVersion' \in
    IF storedVersion = NoVersion THEN Versions ELSE {storedVersion}

\* initialize, up to the end of the base migration's preRun (L39, L67-70).
runBaseMigrationPreRun ==
  /\ mpc = "constructed"
  /\ mpc' = "preRun"
  /\ preRun
  /\ UNCHANGED <<migrationImports, activeMigrations, pending, asked, done,
                 stageRuns, vars, responseVars, recoveryVars,
                 itemVars>>

\* initialize, after preRun (L41-57): the required migrations are
\* instantiated; without any, the version of this build is stored at once.
initialize ==
  /\ mpc = "preRun"
  /\ mpc' = "initialized"
  /\ LET requiredMigrations == getRequiredMigrations(storedVersion)
     IN /\ activeMigrations' = instantiateMigrationClasses(requiredMigrations)
        /\ storedVersion' =
             IF Len(activeMigrations') > 0 THEN storedVersion ELSE SnjsVersion
  /\ UNCHANGED <<migrationImports, pending, asked, done, stageRuns, vars,
                 responseVars, recoveryVars,
                 itemVars>>

lastElement(array) == array[Len(array)]

\* The done callback of the last active migration (L48-50, L60-65).
markMigrationsAsDone ==
  /\ mpc = "initialized"
  /\ Len(activeMigrations) > 0
  /\ mpc' = "done"
  /\ done' = done \cup {lastElement(activeMigrations)}
  /\ storedVersion' = SnjsVersion
  /\ UNCHANGED <<migrationImports, activeMigrations, pending, asked,
                 stageRuns, vars, responseVars, recoveryVars,
                 itemVars>>

\* An active migration other than the last one reports done: no callback is
\* registered for it (L46-50).
migrationDone(m) ==
  /\ mpc \in {"initialized", "done"}
  /\ m \in Range(activeMigrations) \ done
  /\ m # lastElement(activeMigrations)
  /\ done' = done \cup {m}
  /\ UNCHANGED <<migrationImports, storedVersion, mpc, activeMigrations,
                 pending, asked, stageRuns, vars, responseVars, recoveryVars,
                 itemVars>>

\* hasPendingMigrations without the question to the base migration.
hasRequiredMigrations(needsKeychainRepair) ==
  /\ mpc # "constructed"
  /\ asked' = [storedVersion |-> storedVersion,
               needsKeychainRepair |-> needsKeychainRepair]
  /\ pending' = (Len(getRequiredMigrations(storedVersion)) > 0)
  /\ UNCHANGED <<migrationImports, storedVersion, mpc, activeMigrations, done,
                 stageRuns, vars, responseVars, recoveryVars,
                 itemVars>>

\* hasPendingMigrations (L90-98), called by the application once the base
\* migration exists; needsKeychainRepair is the answer of the base
\* migration.
hasPendingMigrations(needsKeychainRepair) ==
  /\ mpc # "constructed"
  /\ asked' = [storedVersion |-> storedVersion,
               needsKeychainRepair |-> needsKeychainRepair]
  /\ pending' = (Len(getRequiredMigrations(storedVersion)) > 0
                   \/ needsKeychainRepair)
  /\ UNCHANGED <<migrationImports, storedVersion, mpc, activeMigrations, done,
                 stageRuns, vars, responseVars, recoveryVars,
                 itemVars>>

MigrationNext ==
  \/ runBaseMigrationPreRun
  \/ initialize
  \/ markMigrationsAsDone
  \/ \E m \in MigrationClasses : migrationDone(m)
  \/ \E needsKeychainRepair \in BOOLEAN :
       hasPendingMigrations(needsKeychainRepair)

\* Any build (versions of its migration classes) started on any storage.
InitMigrations ==
  /\ InitEngine
  /\ items = [i \in Items |-> CleanItem]
  /\ InitResponse
  /\ InitRecovery
  /\ InitItems
  /\ InitService
  /\ migrationImports \in [MigrationClasses -> Versions]
  /\ storedVersion \in Versions \cup {NoVersion}

SpecMigration == InitMigrations /\ [][MigrationNext]_<<vars, otherVars>>

TypeOKMigration ==
  /\ mpc \in {"constructed", "preRun", "initialized", "done"}
  /\ storedVersion \in Versions \cup {NoVersion}
  /\ mpc # "constructed" => storedVersion \in Versions
  /\ Range(activeMigrations) \subseteq MigrationClasses
  /\ pending \in BOOLEAN
  /\ asked.storedVersion \in Versions \cup {NoVersion}
  /\ done \subseteq Range(activeMigrations)

\* ------------------------------------------------------------------- C20
\* a is a greater semantic version than b: at the first part in which they
\* differ, a has the greater number.
SemVerGreater(a, b) ==
  \E i \in 1..3 : a[i] > b[i] /\ \A j \in 1..(i - 1) : a[j] = b[j]

\* The step of initialize that instantiates the migrations.
Instantiates == mpc = "preRun" /\ mpc' = "initialized"

\* C20: for every stored version and every set of migration classes, the
\* migrations that initialize instantiates are exactly the classes whose
\* version is strictly greater than the stored version, each once, in
\* ascending order of version; a class whose version equals or is lower
\* than the stored version is not instantiated.
C20_RequiredMigrations ==
  [][Instantiates =>
       /\ Range(activeMigrations') =
            {c \in MigrationClasses : SemVerGreater(version(c), storedVersion)}
       /\ Len(activeMigrations') = Cardinality(Range(activeMigrations'))
       /\ \A i, j \in 1..Len(activeMigrations') :
            i < j => ~SemVerGreater(version(activeMigrations'[i]),
                                    version(activeMigrations'[j]))
    ]_<<vars, otherVars>>

\* Two migrations of different versions instantiated in the reverse of the
\* order of the exports, the third class being of the stored version.
C20_Witness ==
  /\ mpc = "initialized"
  /\ Len(activeMigrations) = 2
  /\ activeMigrations[1] > activeMigrations[2]
  /\ version(activeMigrations[1]) # version(activeMigrations[2])
  /\ \E c \in MigrationClasses :
       c \notin Range(activeMigrations) /\ version(c) = storedVersion

\* ------------------------------------------------------------------- C21
\* C21: hasPendingMigrations returns true if and only if some migration
\* class has a version greater than the stored version it read or the base
\* migration answered that the keychain needs repair; read after the version
\* of this build was stored, with no repair needed, it returns false.
C21_PendingIffRequiredOrRepair ==
  asked # NoCall =>
    /\ pending = (\/ \E c \in MigrationClasses :
                       SemVerGreater(version(c), asked.storedVersion)
                  \/ asked.needsKeychainRepair)
    /\ (asked.storedVersion = SnjsVersion /\ ~asked.needsKeychainRepair) =>
         ~pending

\* Asked after the last migration reported done, with a sound keychain.
C21_Witness ==
  /\ mpc = "done"
  /\ asked = [storedVersion |-> SnjsVersion, needsKeychainRepair |-> FALSE]
  /\ storedVersion = SnjsVersion
  /\ ~pending

\* ------------------------------------------------------------------ stages
\* handleStage (L139-144) calls the base migration and then the active
\* migrations in the order of the array, one after the other.
receivers == <<BaseMigration>> \o activeMigrations

\* A run of handleStage that calls the handlers without awaiting them.
callsWithoutAwait(run) == Len(run.delivered) < Len(receivers)

\* The run can call the next handler: the one before it has returned.
callsNext(run) == ~run.inHandler /\ Len(run.delivered) < Len(receivers)

\* handleApplicationStage (L76-79), called by the application after
\* initialize: the stage is handled once PureService has handled it.
handleApplicationStage(stage) ==
  /\ mpc \in {"initialized", "done"}
  /\ ~stageRuns["stage"].running
  /\ stageRuns' = [stageRuns EXCEPT
       !["stage"] = [stage |-> stage, delivered |-> <<>>,
                     inHandler |-> FALSE, running |-> TRUE]]
  /\ UNCHANGED <<migrationImports, storedVersion, mpc, activeMigrations,
                 pending, asked, done, vars, responseVars, recoveryVars,
                 itemVars>>

\* handleApplicationEvent (L84-88): only SignedIn is handled, as the stage
\* SignedIn_30.
handleApplicationEvent(event) ==
  /\ mpc \in {"initialized", "done"}
  /\ ~stageRuns["event"].running
  /\ stageRuns' =
       IF event = SignedIn
       THEN [stageRuns EXCEPT
               !["event"] = [stage |-> SignedIn_30, delivered |-> <<>>,
                             inHandler |-> FALSE, running |-> TRUE]]
       ELSE stageRuns
  /\ UNCHANGED <<migrationImports, storedVersion, mpc, activeMigrations,
                 pending, asked, done, vars, responseVars, recoveryVars,
                 itemVars>>

\* handleStage calls the handleStage of the next receiver (L140, L142).
callHandleStage(e) ==
  /\ stageRuns[e].running
  /\ callsNext(stageRuns[e])
  /\ stageRuns' = [stageRuns EXCEPT
       ![e].delivered = @ \o <<receivers[Len(@) + 1]>>,
       ![e].inHandler = TRUE]
  /\ UNCHANGED <<migrationImports, storedVersion, mpc, activeMigrations,
                 pending, asked, done, vars, responseVars, recoveryVars,
                 itemVars>>

\* The awaited handleStage of a receiver returns; after the last one the
\* run ends (L143-144).
handleStageReturns(e) ==
  /\ stageRuns[e].running
  /\ stageRuns[e].inHandler
  /\ stageRuns' = [stageRuns EXCEPT
       ![e].inHandler = FALSE,
       ![e].running = Len(stageRuns[e].delivered) < Len(receivers)]
  /\ UNCHANGED <<migrationImports, storedVersion, mpc, activeMigrations,
                 pending, asked, done, vars, responseVars, recoveryVars,
                 itemVars>>

StagesNext ==
  \/ runBaseMigrationPreRun
  \/ initialize
  \/ markMigrationsAsDone
  \/ \E stage \in ApplicationStages : handleApplicationStage(stage)
  \/ \E event \in {SignedIn, SignedOut} : handleApplicationEvent(event)
  \/ \E e \in EntryPoints : callHandleStage(e)
  \/ \E e \in EntryPoints : handleStageReturns(e)

SpecStages == InitMigrations /\ [][StagesNext]_<<vars, otherVars>>

TypeOKStages ==
  \A e \in EntryPoints :
    /\ stageRuns[e].stage \in ApplicationStages \cup {NoStage}
    /\ Range(stageRuns[e].delivered) \subseteq
         MigrationClasses \cup {BaseMigration}
    /\ stageRuns[e].inHandler => stageRuns[e].running

\* ------------------------------------------------------------------- C22
\* How often the receiver r was called in the run.
Deliveries(run, r) ==
  Cardinality({i \in 1..Len(run.delivered) : run.delivered[i] = r})

\* The run called the base migration first and then active migrations in
\* ascending order of version, none twice.
InOrder(run) ==
  /\ Range(run.delivered) \subseteq
       {BaseMigration} \cup Range(activeMigrations)
  /\ \A r \in Range(run.delivered) : Deliveries(run, r) = 1
  /\ run.delivered # <<>> => run.delivered[1] = BaseMigration
  /\ \A i, j \in 2..Len(run.delivered) :
       i < j => ~SemVerGreater(version(run.delivered[i]),
                               version(run.delivered[j]))

\* The run has ended.
Ended(run) == run.stage # NoStage /\ ~run.running

\* C22: initialize reads the stored version only after the base migration's
\* preRun has completed; afterwards every stage passed to
\* handleApplicationStage, and SignedIn_30 for the SignedIn event, is
\* delivered exactly once to the base migration and to every active
\* migration, the base migration first and then the active migrations in
\* ascending order of version, and a handler is called only when the one
\* before it has returned.
C22_StagesDeliveredInOrder ==
  /\ [][Instantiates => mpc = "preRun" /\ storedVersion \in Versions
       ]_<<vars, otherVars>>
  /\ [](\A e \in EntryPoints :
          /\ InOrder(stageRuns[e])
          /\ Ended(stageRuns[e]) =>
               \A r \in {BaseMigration} \cup Range(activeMigrations) :
                 Deliveries(stageRuns[e], r) = 1)
  /\ [](stageRuns["event"].stage \in {NoStage, SignedIn_30})
  /\ [][\A e \in EntryPoints :
          Len(stageRuns'[e].delivered) > Len(stageRuns[e].delivered) =>
            /\ ~stageRuns[e].inHandler
            /\ Len(stageRuns'[e].delivered) = Len(stageRuns[e].delivered) + 1
       ]_<<vars, otherVars>>

\* A stage delivered to the base migration and two migrations whose order
\* of version is not that of the exports, while the SignedIn event is being
\* delivered.
C22_Witness ==
  /\ Ended(stageRuns["stage"])
  /\ stageRuns["stage"].stage = Launched_10
  /\ Len(stageRuns["stage"].delivered) = 3
  /\ stageRuns["stage"].delivered[2] > stageRuns["stage"].delivered[3]
  /\ stageRuns["event"].running
  /\ stageRuns["event"].inHandler
  /\ stageRuns["event"].stage = SignedIn_30

\* ------------------------------------------------------------------- C23
\* A step of the initialized service that leaves the version of this build
\* in the storage.
StoresSnjsVersion ==
  /\ mpc # "constructed"
  /\ mpc' # mpc
  /\ storedVersion' = SnjsVersion

\* The last (highest-version) active migration reports done in this step.
LastReportsDone ==
  /\ activeMigrations # <<>>
  /\ lastElement(activeMigrations) \in done' \ done

\* The version of this build is stored only when initialize finds no
\* required migration or when the last active migration reports done, and
\* the stored version changes in no other way after preRun.
C23_StoredOnlyByInitializeOrLastDone ==
  [][/\ StoresSnjsVersion =>
          \/ Instantiates /\ activeMigrations' = <<>>
          \/ LastReportsDone
     /\ (mpc # "constructed" /\ storedVersion' # storedVersion) =>
          StoresSnjsVersion
    ]_<<vars, otherVars>>

\* The version of this build is not stored while an active migration has
\* not reported done.
C23_NotWhileMigrationIncomplete ==
  [][StoresSnjsVersion => Range(activeMigrations') \subseteq done'
    ]_<<vars, otherVars>>

\* C23: the stored version is overwritten with the version of this build
\* only when initialize finds no required migration or when the last active
\* migration reports done, and it is never the version of this build while
\* a required migration has not completed.
C23_StoredVersionIsLastCompleted ==
  /\ C23_StoredOnlyByInitializeOrLastDone
  /\ C23_NotWhileMigrationIncomplete

\* ================================================================ conflicts
\* SNItem.strategyWhenConflictingWithItem (part_005 L262-287).

\* No key is ignored.
noContentKeys == {}

\* L216-218.
contentKeysToIgnoreWhenCheckingEquality == {"conflict_of"}

\* L221-223.
appDataContentKeysToIgnoreWhenCheckingEquality == {"client_updated_at"}

\* A content without the given keys and the given keys of the default
\* domain; a content that is no object has no keys to leave out.
omitKeys(content, keys, appDataKeys) ==
  IF content.kind # "object" THEN content
  ELSE [kind |-> content.kind,
        keys |-> [k \in ContentKeys \ keys |-> content.keys[k]],
        appData |-> [k \in AppDataKeys \ appDataKeys |-> content.appData[k]]]

\* ItemContentsEqual: the contents are the same once the keys to ignore are
\* left out of both.
ItemContentsEqual(leftContent, rightContent, keysToIgnore, appDataKeysToIgnore) ==
  omitKeys(leftContent, keysToIgnore, appDataKeysToIgnore) =
    omitKeys(rightContent, keysToIgnore, appDataKeysToIgnore)

\* ItemContentsDiffer(item1, item2, excludeContentKeys): not equal, ignoring
\* the keys item1 ignores and the excluded keys.
ItemContentsDiffer(item1, item2, excludeContentKeys) ==
  ~ItemContentsEqual(
     item1.content, item2.content,
     contentKeysToIgnoreWhenCheckingEquality \cup excludeContentKeys,
     appDataContentKeysToIgnoreWhenCheckingEquality)

\* The strategy without the comparison that excludes the references.
strategyWithoutMergeRefs(self, item) ==
  IF self.errorDecrypting THEN "KeepLeftDuplicateRight"
  ELSE IF self.isSingleton THEN "KeepLeft"
  ELSE IF self.deleted \/ item.deleted THEN "KeepRight"
  ELSE IF ~ItemContentsDiffer(self, item, {}) THEN "KeepRight"
  ELSE "KeepLeftDuplicateRight"

\* L262-287; self is the item asked (this).
strategyWhenConflictingWithItem(self, item) ==
  IF self.errorDecrypting THEN "KeepLeftDuplicateRight"
  ELSE IF self.isSingleton THEN "KeepLeft"
  ELSE IF self.deleted \/ item.deleted THEN "KeepRight"
  ELSE LET contentDiffers == ItemContentsDiffer(self, item, {})
           differsExclRefs == ItemContentsDiffer(self, item, {"references"})
       IN IF ~contentDiffers THEN "KeepRight"
          ELSE IF differsExclRefs THEN "KeepLeftDuplicateRight"
          ELSE "KeepLeftMergeRefs"

\* The local item is asked for its strategy against the incoming item.
askStrategy ==
  /\ conflictStrategy = NoStrategy
  /\ conflictStrategy' =
       strategyWhenConflictingWithItem(localItem, incomingItem)
  /\ UNCHANGED <<localItem, incomingItem, serviceVars, mutatorVars,
                 deltaVars>>

ConflictNext == askStrategy

\* Any two items in conflict.
InitConflicts ==
  /\ InitEngine
  /\ items = [i \in Items |-> CleanItem]
  /\ InitResponse
  /\ InitRecovery
  /\ InitMigration
  /\ localItem \in ConflictItems
  /\ incomingItem \in ConflictItems
  /\ conflictStrategy = NoStrategy
  /\ InitMutator
  /\ InitDelta
  /\ InitSession
  /\ InitHash
  /\ InitRecord

SpecConflict == InitConflicts /\ [][ConflictNext]_<<vars, otherVars>>

\* ------------------------------------------------------------------- C24
\* The strategy was computed.
Decided == conflictStrategy # NoStrategy

\* A local singleton that is decrypted keeps the local item.
C24_KeepLeftForDecryptedSingleton ==
  (Decided /\ localItem.isSingleton /\ ~localItem.errorDecrypting) =>
    conflictStrategy = "KeepLeft"

\* C24: the strategy is KeepLeft whenever the local item is a singleton or
\* has errorDecrypting = true, whatever the incoming item is.
C24_KeepLeftForSingletonOrErrored ==
  (Decided /\ (localItem.isSingleton \/ localItem.errorDecrypting)) =>
    conflictStrategy = "KeepLeft"

\* ------------------------------------------------------------------- C25
\* The keys, of the content and of the data of the default domain, that
\* take part in the comparison of contents.
ComparedKeys ==
  (ContentKeys \ {"conflict_of"}) \cup (AppDataKeys \ {"client_updated_at"})

\* The value of a compared key.
ValueOf(content, k) ==
  IF k \in ContentKeys THEN content.keys[k] ELSE content.appData[k]

\* The compared keys in which two contents differ: all of them when one of
\* the contents is no object and the other is another thing.
DiffKeys(a, b) ==
  IF a.kind = "object" /\ b.kind = "object"
  THEN {k \in ComparedKeys : ValueOf(a, k) # ValueOf(b, k)}
  ELSE IF a = b THEN {} ELSE ComparedKeys

\* One of the two items is deleted, or their contents are equal apart from
\* the ignored keys.
DeletedOrEqual ==
  \/ localItem.deleted
  \/ incomingItem.deleted
  \/ DiffKeys(localItem.content, incomingItem.content) = {}

\* C25: the strategy is KeepRight whenever the local or the incoming item
\* is deleted, and whenever their contents are equal after ignoring
\* conflict_of and, in the default domain, client_updated_at.
C25_KeepRightWhenDeletedOrEqual ==
  (Decided /\ DeletedOrEqual) => conflictStrategy = "KeepRight"

\* The same for a local item that is neither a singleton nor errored; these
\* two come first (L263-268).
C25_KeepRightAfterSingletonAndErrored ==
  (Decided /\ ~localItem.isSingleton /\ ~localItem.errorDecrypting
     /\ DeletedOrEqual) =>
    conflictStrategy = "KeepRight"

\* Two live items whose contents differ in the ignored keys only.
C25_Witness ==
  /\ conflictStrategy = "KeepRight"
  /\ ~localItem.isSingleton
  /\ ~localItem.deleted /\ ~incomingItem.deleted
  /\ ~incomingItem.errorDecrypting
  /\ localItem.content.keys["conflict_of"] #
       incomingItem.content.keys["conflict_of"]
  /\ localItem.content.appData["client_updated_at"] #
       incomingItem.content.appData["client_updated_at"]

\* ------------------------------------------------------------------- C26
\* The local item is decrypted, no singleton and not deleted, and the
\* incoming item is not deleted.
BothLive ==
  /\ ~localItem.errorDecrypting
  /\ ~localItem.isSingleton
  /\ ~localItem.deleted
  /\ ~incomingItem.deleted

\* C26: for such items, contents that differ only in their references give
\* KeepLeftMergeRefs and contents that differ in another compared key give
\* KeepLeftDuplicateRight; the strategy is one of the five strategies and
\* the one the two items determine.
C26_MergeRefsOrDuplicate ==
  Decided =>
    /\ conflictStrategy \in ConflictStrategies
    /\ BothLive =>
         LET diff == DiffKeys(localItem.content, incomingItem.content)
         IN /\ diff = {"references"} =>
                 conflictStrategy = "KeepLeftMergeRefs"
            /\ diff \ {"references"} # {} =>
                 conflictStrategy = "KeepLeftDuplicateRight"
            /\ conflictStrategy =
                 IF diff = {} THEN "KeepRight"
                 ELSE IF diff = {"references"} THEN "KeepLeftMergeRefs"
                 ELSE "KeepLeftDuplicateRight"

\* References and an ignored key differ, nothing else.
C26_Witness ==
  /\ conflictStrategy = "KeepLeftMergeRefs"
  /\ BothLive
  /\ localItem.content.keys["conflict_of"] #
       incomingItem.content.keys["conflict_of"]
  /\ localItem.content.keys["references"] #
       incomingItem.content.keys["references"]

\* ================================================================= mutator
\* ItemMutator (part_005 L348-474).

\* Copy makes a new object with the value of the object.
shareObject(object) == object

Copy(object) == "copy"

\* CopyPayload(payload, override): the fields of the payload, those of the
\* override taken from the override.
CopyPayload(payload, override) ==
  [f \in DOMAIN payload |->
     IF f \in DOMAIN override THEN override[f] ELSE payload[f]]

\* this.content is an object whose properties can be read and set.
isObject(ref) == heap[ref].kind = "object"

Op(name) == [NoOp EXCEPT !.name = name]

\* The service variables and the variables of the other item models.
outsideMutator == <<serviceVars, conflictVars, deltaVars>>

\* constructor (L354-359).
newMutator(source) ==
  /\ mutator = NoMutator
  /\ mutator' = [source |-> source, payload |-> itemPayload,
                 content |-> Copy(itemPayload.content)]
  /\ heap' = [heap EXCEPT !["copy"] = heap[itemPayload.content]]
  /\ result' = NoResult
  /\ thrown' = FALSE
  /\ lastOp' = Op("constructor")
  /\ UNCHANGED <<itemPayload, date, outsideMutator>>

\* The content with data[key] = value in the data of the domain, made if
\* there is none (L444-452).
withDomainDataKey(content, key, value, domain) ==
  LET globalData == content.appData.domains
      domainData == IF globalData[domain].present THEN globalData[domain]
                    ELSE EmptyDomainData
  IN [content EXCEPT
        !.appData = [present |-> TRUE,
                     domains |-> [globalData EXCEPT
                       ![domain] = [domainData EXCEPT ![key] = value]]]]

\* What setDomainDataKey does to the objects (L440-453): nothing for an
\* errored payload, a TypeError if this.content is undefined.
domainDataKeySet(key, value, domain) ==
  IF mutator.payload.errorDecrypting
  THEN [heap |-> heap, thrown |-> FALSE]
  ELSE IF ~isObject(mutator.content)
  THEN [heap |-> heap, thrown |-> TRUE]
  ELSE [heap |-> [heap EXCEPT ![mutator.content] =
                    withDomainDataKey(@, key, value, domain)],
        thrown |-> FALSE]

\* setAppDataItem (L455-457).
appDataItemSet(key, value) == domainDataKeySet(key, value, DefaultAppDomain)

\* item.getAppDomainValue(key) (L176-188): the data of the default domain
\* is read without a test that it exists.
getAppDomainValue(key) ==
  LET domainData == heap[itemPayload.content].appData
      appData == domainData.domains[DefaultAppDomain]
  IN IF ~isObject(itemPayload.content) \/ ~domainData.present
        \/ ~appData.present
     THEN [value |-> NoDate, thrown |-> TRUE]
     ELSE [value |-> appData[key], thrown |-> FALSE]

\* L362-373: what getResult does to the user modified date.
userModifiedDateSet ==
  IF mutator.payload.deleted THEN [heap |-> heap, thrown |-> FALSE]
  ELSE IF mutator.source = UserInteraction
  THEN appDataItemSet(UserModifiedDateKey, date)
  ELSE LET currentValue == getAppDomainValue(UserModifiedDateKey)
       IN IF currentValue.thrown THEN [heap |-> heap, thrown |-> TRUE]
          ELSE IF currentValue.value = NoDate
          THEN appDataItemSet(UserModifiedDateKey, itemPayload.updated_at)
          ELSE [heap |-> heap, thrown |-> FALSE]

\* getResult (L361-382).
ItemMutator_getResult ==
  /\ mutator # NoMutator
  /\ LET set == userModifiedDateSet
     IN /\ heap' = set.heap
        /\ thrown' = set.thrown
        /\ result' =
             IF set.thrown THEN NoResult
             ELSE [returned |-> TRUE,
                   payload |-> CopyPayload(
                     mutator.payload,
                     [content |-> mutator.content, dirty |-> TRUE,
                      dirtiedDate |-> date]),
                   content |-> set.heap[mutator.content]]
  /\ lastOp' = Op("getResult")
  /\ UNCHANGED <<itemPayload, mutator, date, outsideMutator>>

\* setDeleted (L384-393).
ItemMutator_setDeleted ==
  /\ mutator # NoMutator
  /\ mutator' = [mutator EXCEPT
       !.content = "undefined",
       !.payload = CopyPayload(@, [content |-> "undefined",
                                   deleted |-> TRUE])]
  /\ result' = NoResult
  /\ thrown' = FALSE
  /\ lastOp' = Op("setDeleted")
  /\ UNCHANGED <<itemPayload, heap, date, outsideMutator>>

\* set lastSyncBegan (L395-403).
setLastSyncBegan(began) ==
  /\ mutator # NoMutator
  /\ mutator' = [mutator EXCEPT
       !.payload = CopyPayload(@, [content |-> mutator.content,
                                   lastSyncBegan |-> began])]
  /\ result' = NoResult
  /\ thrown' = FALSE
  /\ lastOp' = Op("lastSyncBegan")
  /\ UNCHANGED <<itemPayload, heap, date, outsideMutator>>

\* set trashed (L409-411): a TypeError unless this.content is an object.
setTrashed(trashed) ==
  /\ mutator # NoMutator
  /\ IF isObject(mutator.content)
     THEN /\ heap' = [heap EXCEPT ![mutator.content].trashed = trashed]
          /\ thrown' = FALSE
     ELSE /\ heap' = heap
          /\ thrown' = TRUE
  /\ result' = NoResult
  /\ lastOp' = Op("trashed")
  /\ UNCHANGED <<itemPayload, mutator, date, outsideMutator>>

\* setDomainData (L428-434).  L432 names content the appData object (or a
\* new object); L433 reads its property appData, which only an appData
\* with a domain of that name has, and then the domain of that: a
\* TypeError otherwise.  Nothing is assigned.
setDomainData(data, domain) ==
  /\ mutator # NoMutator
  /\ heap' = heap
  /\ thrown' =
       IF mutator.payload.errorDecrypting THEN FALSE
       ELSE IF ~isObject(mutator.content) THEN TRUE
       ELSE "appData" \notin Domains
  /\ result' = NoResult
  /\ lastOp' = [name |-> "setDomainData", key |-> "", domain |-> domain,
                data |-> data]
  /\ UNCHANGED <<itemPayload, mutator, date, outsideMutator>>

\* setDomainDataKey (L440-453).
setDomainDataKey(key, value, domain) ==
  /\ mutator # NoMutator
  /\ LET set == domainDataKeySet(key, value, domain)
     IN /\ heap' = set.heap
        /\ thrown' = set.thrown
  /\ result' = NoResult
  /\ lastOp' = [name |-> "setDomainDataKey", key |-> key, domain |-> domain,
                data |-> NoDomainData]
  /\ UNCHANGED <<itemPayload, mutator, date, outsideMutator>>

\* Time passes.
tick ==
  /\ date < MaxDate
  /\ date' = date + 1
  /\ result' = NoResult
  /\ lastOp' = Op("tick")
  /\ UNCHANGED <<itemPayload, heap, mutator, thrown, outsideMutator>>

\* The values given to a key, and the data given to a domain.
KeyValues(key) == IF key = UserModifiedDateKey THEN {date} ELSE {"true"}
GivenDatas ==
  {[EmptyDomainData EXCEPT !.pinned = "true"],
   [EmptyDomainData EXCEPT !.client_updated_at = 0]}

MutatorNext ==
  \/ \E source \in {UserInteraction, Internal} : newMutator(source)
  \/ ItemMutator_getResult
  \/ ItemMutator_setDeleted
  \/ setLastSyncBegan(date)
  \/ setTrashed(TRUE)
  \/ \E data \in GivenDatas, domain \in Domains : setDomainData(data, domain)
  \/ \E domain \in Domains :
       \E key \in IF domain = DefaultAppDomain
                  THEN {UserModifiedDateKey, "pinned"} ELSE {"pinned"} :
         \E value \in KeyValues(key) : setDomainDataKey(key, value, domain)
  \/ tick

\* Any item: deleted, errored or decrypted.
InitMutators ==
  /\ InitEngine
  /\ items = [i \in Items |-> CleanItem]
  /\ InitResponse
  /\ InitRecovery
  /\ InitMigration
  /\ InitConflict
  /\ InitDelta
  /\ InitSession
  /\ InitHash
  /\ InitRecord
  /\ InitMutation
  /\ \E deleted, errorDecrypting \in BOOLEAN :
       /\ itemPayload = cleanPayload(deleted, errorDecrypting)
       /\ \E c \in IF deleted THEN {UndefinedContent}
                   ELSE IF errorDecrypting THEN {StringContent}
                   ELSE MutatedContents :
            heap = [r \in ObjectRefs |->
                      IF r = "item" THEN c ELSE UndefinedContent]

SpecMutator == InitMutators /\ [][MutatorNext]_<<vars, otherVars>>

TypeOKMutator ==
  /\ heap["undefined"] = UndefinedContent
  /\ \A r \in ObjectRefs :
       heap[r] \in MutatorContents \cup {UndefinedContent, StringContent}
  /\ mutator.content \in ObjectRefs
  /\ date \in Dates
  /\ thrown \in BOOLEAN

\* ------------------------------------------------------------------- C27
\* The step is a call of getResult.
GetsResult == lastOp'.name = "getResult"

\* C27: for every item and every sequence of operations of its mutator,
\* getResult returns a payload with dirty = true and a dirtiedDate of the
\* time of the call that has the uuid, content_type, created_at and
\* updated_at of the item's payload; the payload and the content of the
\* item are left as they were by every operation.
C27_ResultIsDirtyCopyItemUnchanged ==
  [][/\ GetsResult =>
          /\ ~thrown'
          /\ result'.returned
          /\ result'.payload.dirty
          /\ result'.payload.dirtiedDate = date
          /\ \A f \in {"uuid", "content_type", "created_at", "updated_at"} :
               result'.payload[f] = itemPayload[f]
     /\ itemPayload' = itemPayload
     /\ heap'[itemPayload.content] = heap[itemPayload.content]
    ]_<<vars, otherVars>>

\* A result returned at a later time, after the mutator has trashed the
\* item, pinned it and set lastSyncBegan.
C27_Witness ==
  /\ result.returned
  /\ ~itemPayload.dirty
  /\ result.payload.dirtiedDate = MaxDate
  /\ result.payload.lastSyncBegan # NoDate
  /\ result.content.trashed
  /\ result.content.appData.domains[DefaultAppDomain].pinned = "true"
  /\ ~heap[itemPayload.content].trashed

\* ------------------------------------------------------------------- C28
\* client_updated_at of the default domain in a content; NoDate if none.
UserModifiedDate(content) ==
  content.appData.domains[DefaultAppDomain].client_updated_at

\* getResult is called on the mutator of a decrypted item that is not
\* deleted.
GetsResultOfLiveItem ==
  /\ GetsResult
  /\ ~itemPayload.deleted
  /\ ~mutator.payload.deleted
  /\ isObject(mutator.content)

\* A mutation of type UserInteraction sets client_updated_at to the time
\* of the call.
C28_UserInteractionSetsDate ==
  [][(GetsResultOfLiveItem /\ mutator.source = UserInteraction) =>
       UserModifiedDate(result'.content) = date]_<<vars, otherVars>>

\* C28: a mutation of type Internal on an item that is not deleted leaves
\* a client_updated_at the item has as it is, and sets one the item has
\* not to the updated_at of the item; only a mutation of type
\* UserInteraction sets it to the time of the call.
C28_InternalKeepsUserModifiedDate ==
  [][(GetsResultOfLiveItem /\ mutator.source = Internal) =>
       UserModifiedDate(result'.content) =
         IF UserModifiedDate(heap[mutator.content]) # NoDate
         THEN UserModifiedDate(heap[mutator.content])
         ELSE itemPayload.updated_at]_<<vars, otherVars>>

\* ------------------------------------------------------------------- C29
\* On an errored payload setDomainData and setDomainDataKey leave every
\* content as it was.
C29_ErroredContentUnchanged ==
  [][(lastOp'.name \in {"setDomainData", "setDomainDataKey"}
        /\ mutator.payload.errorDecrypting) =>
       heap' = heap /\ ~thrown']_<<vars, otherVars>>

\* After setDomainData on a decrypted content the domain has the data and
\* the other domains have theirs.
C29_DomainDataAssigned ==
  [][(lastOp'.name = "setDomainData" /\ ~mutator.payload.errorDecrypting
        /\ isObject(mutator.content)) =>
       LET before == heap[mutator.content].appData
           after == heap'[mutator.content].appData
       IN /\ ~thrown'
          /\ after.present
          /\ after.domains[lastOp'.domain] = lastOp'.data
          /\ \A d \in Domains \ {lastOp'.domain} :
               after.domains[d] = before.domains[d]]_<<vars, otherVars>>

\* C29: after setDomainData(data, domain) on the mutator of a payload that
\* is not errorDecrypting, the content has appData[domain] equal to data
\* and the data of every other domain as before; on an errorDecrypting
\* payload setDomainData and setDomainDataKey leave the content unchanged.
C29_SetDomainData ==
  /\ C29_DomainDataAssigned
  /\ C29_ErroredContentUnchanged

\* ================================================================== deltas
\* DeltaRemoteRejected.resultingCollection (remote_rejected.ts L6-33).

\* PayloadsDelta.findRelatedPayload(uuid, source): the payload of the uuid
\* in the related collection of the source, if there is one.
findRelatedPayload(uuid, source) ==
  IF source = "DecryptedTransient" THEN decryptedTransient[uuid]
  ELSE NoPayload

\* CreateSourcedPayloadFromObject(object, source, override): a payload of
\* the source with the fields of the object, those of the override taken
\* from the override.
CreateSourcedPayloadFromObject(object, source, override) ==
  [f \in DOMAIN object |->
     IF f = "source" THEN source
     ELSE IF f \in DOMAIN override THEN override[f]
     ELSE object[f]]

\* The override of a payload that stays dirty.
dirtyOverride == [lastSyncEnd |-> date, dirty |-> TRUE]

\* L21-24: the override of a rejected payload.
rejectedOverride == [lastSyncEnd |-> date, dirty |-> FALSE]

\* L10-27: the results for the payloads not yet gone through, or that a
\* payload without a decrypted counterpart was met.
RECURSIVE resultsOf(_)
resultsOf(payloads) ==
  IF payloads = <<>> THEN [thrown |-> FALSE, results |-> <<>>]
  ELSE LET payload == Head(payloads)
           decrypted == findRelatedPayload(payload.uuid, "DecryptedTransient")
           rest == resultsOf(Tail(payloads))
       IN IF decrypted = NoPayload \/ rest.thrown
          THEN [thrown |-> TRUE, results |-> <<>>]
          ELSE [thrown |-> FALSE,
                results |->
                  <<CreateSourcedPayloadFromObject(
                      decrypted, "RemoteRejected", rejectedOverride)>>
                  \o rest.results]

\* resultingCollection (L8-32): the collection of the results, or the
\* throw of L16.
resultingCollection ==
  /\ ~deltaResult.called
  /\ LET r == resultsOf(applyCollection)
     IN deltaResult' =
          IF r.thrown
          THEN [called |-> TRUE, thrown |-> TRUE, payloads |-> <<>>,
                source |-> "none"]
          ELSE [called |-> TRUE, thrown |-> FALSE, payloads |-> r.results,
                source |-> "RemoteRejected"]
  /\ UNCHANGED <<applyCollection, decryptedTransient, serviceVars,
                 conflictVars, mutatorVars>>

DeltaNext == resultingCollection

\* Any rejected payloads, each with or without a decrypted counterpart.
InitDeltas ==
  /\ InitEngine
  /\ items = [i \in Items |-> CleanItem]
  /\ InitResponse
  /\ InitRecovery
  /\ InitMigration
  /\ InitConflict
  /\ InitMutator
  /\ InitSession
  /\ InitHash
  /\ InitRecord
  /\ \E q \in UuidSeqs :
       applyCollection = [i \in 1..Len(q) |-> rejectedPayload(q[i])]
  /\ decryptedTransient \in
       [Uuids -> UNION {decryptedCounterparts(u) : u \in Uuids} \cup {NoPayload}]
  /\ \A u \in Uuids : decryptedTransient[u].uuid \in {u, NoPayload.uuid}
  /\ deltaResult = NoDeltaResult

SpecDelta == InitDeltas /\ [][DeltaNext]_<<vars, otherVars>>

\* ------------------------------------------------------------------- C30
\* Every rejected payload has a decrypted counterpart.
AllHaveCounterpart ==
  \A p \in Range(applyCollection) : decryptedTransient[p.uuid] # NoPayload

\* C30: resultingCollection returns, for each payload of the apply
\* collection, exactly one payload of the same uuid, with the content of
\* the decrypted counterpart, dirty = false, lastSyncEnd set and the source
\* RemoteRejected, and no other payload; if a rejected payload has no
\* decrypted counterpart it throws and returns no collection.
C30_RejectedResourcedFromDecrypted ==
  deltaResult.called =>
    IF AllHaveCounterpart
    THEN /\ ~deltaResult.thrown
         /\ deltaResult.source = "RemoteRejected"
         /\ Len(deltaResult.payloads) = Len(applyCollection)
         /\ \A p \in Range(applyCollection) :
              Cardinality({i \in 1..Len(deltaResult.payloads) :
                             deltaResult.payloads[i].uuid = p.uuid}) = 1
         /\ \A r \in Range(deltaResult.payloads) :
              /\ \E p \in Range(applyCollection) : p.uuid = r.uuid
              /\ r.content = decryptedTransient[r.uuid].content
              /\ r.content = "decrypted"
              /\ ~r.dirty
              /\ r.lastSyncEnd = date
              /\ r.source = "RemoteRejected"
    ELSE /\ deltaResult.thrown
         /\ deltaResult.payloads = <<>>

\* Two rejected payloads resourced from dirty decrypted counterparts, in
\* the order of the apply collection.
C30_Witness ==
  /\ deltaResult.called
  /\ ~deltaResult.thrown
  /\ Len(deltaResult.payloads) = 2
  /\ deltaResult.payloads[1].uuid > deltaResult.payloads[2].uuid
  /\ \A p \in Range(applyCollection) : decryptedTransient[p.uuid].dirty

\* ================================================================= session
\* SNSessionManager (part_004 L38-322).

\* The user and the session, in memory and in storage.
credentials == <<user, storedUser, session, storedSession>>

\* What the server can answer to the request with the given number.
ServerResponses(id) ==
  [id : {id}, error : {FALSE}, message : {"none"}, mfa_key : {FALSE},
   user : Users, token : {"none", "jwt"}]
  \cup [id : {id}, error : {TRUE}, message : {"server"}, mfa_key : BOOLEAN,
        user : {NoUser}, token : {"none"}]

\* apiService.createErrorResponse(message): an error response made locally.
createErrorResponse(message) ==
  [NoAuthResponse EXCEPT !.error = TRUE, !.message = message]

\* protocolService.supportedVersions(): "001" to "004".
supportedVersions == 1..LatestVersion

\* protocolService.isVersionNewerThanLibraryVersion(keyVersion).
isVersionNewerThanLibraryVersion(keyVersion) == keyVersion > LatestVersion

\* protocolService.isProtocolVersionOutdated(keyVersion): 001 and 002 (L196).
isProtocolVersionOutdated(keyVersion) == keyVersion \in {1, 2}

\* protocolService.costMinimumForVersion(keyVersion), in units of the minimum.
costMinimumForVersion(keyVersion) == 1

\* The costs of key params: below the minimum, and the minimum.
PwCosts == 0..1

\* A call begins: its arguments, and the credentials it finds.
beginCall(op) ==
  [NoAuthCall EXCEPT !.op = op, !.before = credentials,
                     !.requestsBefore = requests]

\* The call returns the response.
returns(authResponse) ==
  authReturn' = [returned |-> TRUE, thrown |-> FALSE, response |-> authResponse]

\* handleSuccessAuthResponse (L305-321): the user is set and stored, the
\* session of the response is set and persisted.
handleSuccessAuthResponse(authResponse) ==
  /\ user' = authResponse.user
  /\ storedUser' = authResponse.user
  /\ session' = [kind |-> IF authResponse.token # "none" THEN "jwt" ELSE "token",
                 user |-> authResponse.user]
  /\ storedSession' = session'

\* The response is handled as a success also when it carries an error.
handleEveryResponse(authResponse) ==
  handleSuccessAuthResponse(authResponse)

\* L155-157, L263-266, L297-299: a response without error is handled as a
\* success.
handleAuthResponse(authResponse) ==
  IF ~authResponse.error
  THEN handleSuccessAuthResponse(authResponse)
  ELSE UNCHANGED credentials

\* register(email, password) (L134-162).
register(passwordLength) ==
  /\ authCall.pc = "idle"
  /\ LET call == [beginCall("register") EXCEPT
                    !.passwordLength = passwordLength]
     IN IF passwordLength < MINIMUM_PASSWORD_LENGTH
        THEN /\ authCall' = call
             /\ returns(createErrorResponse("InsufficientPassword"))
             /\ UNCHANGED <<credentials, requests>>
        ELSE /\ requests < MaxRequests
             /\ requests' = requests + 1
             /\ \E registerResponse \in ServerResponses(requests + 1) :
                  /\ authCall' = [call EXCEPT !.response = registerResponse]
                  /\ handleAuthResponse(registerResponse)
                  /\ returns(registerResponse)
  /\ UNCHANGED <<accountVersion, serviceVarsButSession, conflictVars,
                 mutatorVars, deltaVars>>

\* changePassword(currentServerPassword, newServerPassword, newKeyParams)
\* (L285-303).
changePassword ==
  /\ authCall.pc = "idle"
  /\ requests < MaxRequests
  /\ requests' = requests + 1
  /\ \E authResponse \in ServerResponses(requests + 1) :
       /\ authCall' = [beginCall("changePassword") EXCEPT
                         !.response = authResponse]
       /\ handleAuthResponse(authResponse)
       /\ returns(authResponse)
  /\ UNCHANGED <<accountVersion, serviceVarsButSession, conflictVars,
                 mutatorVars, deltaVars>>

\* What the server can answer to the request of the key params.
ParamsResponses(id) ==
  {[NoAuthResponse EXCEPT !.id = id],
   [NoAuthResponse EXCEPT !.id = id, !.error = TRUE, !.message = "server"]}

\* L220-222: the lowest version a sign-in allows.
minimumVersion(strict, minAllowedVersion) ==
  IF strict THEN LatestVersion ELSE minAllowedVersion

\* No check is made of the key params.
noCheck(keyVersion, pw_cost, confirmed, platformSupports, strict, minAllowedVersion) ==
  "none"

\* L178-231: the message of the check of the key params that fails first,
\* if one fails.
failedCheck(keyVersion, pw_cost, confirmed, platformSupports, strict, minAllowedVersion) ==
  IF keyVersion = NoKeyParamsVersion
  THEN "API_MESSAGE_FALLBACK_LOGIN_FAIL"
  ELSE IF keyVersion \notin supportedVersions
  THEN IF isVersionNewerThanLibraryVersion(keyVersion)
       THEN "UNSUPPORTED_PROTOCOL_VERSION"
       ELSE "EXPIRED_PROTOCOL_VERSION"
  ELSE IF /\ isProtocolVersionOutdated(keyVersion)
          /\ pw_cost < costMinimumForVersion(keyVersion)
  THEN "INVALID_PASSWORD_COST"
  ELSE IF isProtocolVersionOutdated(keyVersion) /\ ~confirmed
  THEN "API_MESSAGE_FALLBACK_LOGIN_FAIL"
  ELSE IF ~platformSupports
  THEN "UNSUPPORTED_KEY_DERIVATION"
  ELSE IF /\ minimumVersion(strict, minAllowedVersion) # NoKeyParamsVersion
          /\ ~leftVersionGreaterThanOrEqualToRight(
                keyVersion, minimumVersion(strict, minAllowedVersion))
  THEN "StrictSignInFailed"
  ELSE "none"

\* signIn(email, password, strict, minAllowedVersion) (L164-249), up to the
\* request of apiService.signIn (L258).
signInWith(op, strict, minAllowedVersion) ==
  /\ authCall.pc = "idle"
  /\ requests < MaxRequests
  /\ \E paramsResponse \in ParamsResponses(requests + 1) :
       IF paramsResponse.error
       THEN /\ authCall' = [beginCall(op) EXCEPT
                              !.strict = strict,
                              !.minAllowedVersion = minAllowedVersion,
                              !.response = paramsResponse]
            /\ requests' = requests + 1
            /\ returns(paramsResponse)
       ELSE \E keyVersion \in KeyParamsVersions \cup {NoKeyParamsVersion},
               platformSupports \in BOOLEAN :
            \E pw_cost \in IF isProtocolVersionOutdated(keyVersion)
                            THEN PwCosts ELSE {NoAuthCall.pw_cost},
               confirmed \in IF isProtocolVersionOutdated(keyVersion)
                              THEN BOOLEAN ELSE {NoAuthCall.confirmed} :
              LET call == [beginCall(op) EXCEPT
                             !.version = keyVersion,
                             !.pw_cost = pw_cost,
                             !.confirmed = confirmed,
                             !.platformSupports = platformSupports,
                             !.strict = strict,
                             !.minAllowedVersion = minAllowedVersion,
                             !.response = paramsResponse]
                  failed == failedCheck(keyVersion, pw_cost, confirmed,
                                        platformSupports, strict,
                                        minAllowedVersion)
              IN IF failed # "none"
                 THEN /\ authCall' = call
                      /\ requests' = requests + 1
                      /\ returns(createErrorResponse(failed))
                 ELSE /\ requests + 2 <= MaxRequests
                      /\ authCall' = [call EXCEPT !.pc = "signingIn",
                                                  !.sent = 1]
                      /\ requests' = requests + 2
                      /\ authReturn' = NoAuthReturn
  /\ UNCHANGED credentials

\* signIn called by the application.
signIn(strict, minAllowedVersion) ==
  /\ signInWith("signIn", strict, minAllowedVersion)
  /\ UNCHANGED <<accountVersion, serviceVarsButSession, conflictVars,
                 mutatorVars, deltaVars>>

\* reauthenticateInvalidSession (L104-121): nothing without the email and
\* the password; else a sign-in that is not strict, with the version of the
\* current account key params as the lowest allowed.
reauthenticateInvalidSession(given) ==
  /\ IF ~given
     THEN /\ authCall.pc = "idle"
          /\ authCall' = beginCall("reauthenticate")
          /\ authReturn' = [NoAuthReturn EXCEPT !.returned = TRUE]
          /\ UNCHANGED <<credentials, requests>>
     ELSE IF accountVersion = NoKeyParamsVersion
     THEN /\ authCall.pc = "idle"
          /\ authCall' = beginCall("reauthenticate")
          /\ authReturn' = [NoAuthReturn EXCEPT !.thrown = TRUE]
          /\ UNCHANGED <<credentials, requests>>
     ELSE signInWith("reauthenticate", FALSE, accountVersion)
  /\ UNCHANGED <<accountVersion, serviceVarsButSession, conflictVars,
                 mutatorVars, deltaVars>>

\* bypassChecksAndSignInWithServerPassword (L251-283) called from outside:
\* the request of apiService.signIn (L258).
bypassChecksAndSignInWithServerPassword ==
  /\ authCall.pc = "idle"
  /\ requests < MaxRequests
  /\ requests' = requests + 1
  /\ authCall' = [beginCall("bypassChecks") EXCEPT !.pc = "signingIn",
                                                   !.sent = 1]
  /\ authReturn' = NoAuthReturn
  /\ UNCHANGED <<credentials, accountVersion, serviceVarsButSession,
                 conflictVars, mutatorVars, deltaVars>>

\* L264-282: the answer to apiService.signIn; a success is handled and
\* returned, an error that asks for an MFA code leads to the prompt, any
\* other error is returned.
signInResponds ==
  /\ authCall.pc = "signingIn"
  /\ \E signInResponse \in ServerResponses(requests) :
       IF signInResponse.error /\ signInResponse.mfa_key
       THEN /\ authCall' = [authCall EXCEPT !.pc = "mfaPrompt",
                                            !.response = signInResponse]
            /\ UNCHANGED <<credentials, authReturn>>
       ELSE /\ authCall' = [authCall EXCEPT !.pc = "idle",
                                            !.response = signInResponse]
            /\ handleAuthResponse(signInResponse)
            /\ returns(signInResponse)
  /\ UNCHANGED <<requests, accountVersion, serviceVarsButSession,
                 conflictVars, mutatorVars, deltaVars>>

\* L270-281: without an MFA code the error is returned; with one the
\* sign-in is sent again.
promptForMfaValue(given) ==
  /\ authCall.pc = "mfaPrompt"
  /\ IF ~given
     THEN /\ authCall' = [authCall EXCEPT !.pc = "idle"]
          /\ returns(authCall.response)
          /\ UNCHANGED requests
     ELSE /\ requests < MaxRequests
          /\ requests' = requests + 1
          /\ authCall' = [authCall EXCEPT !.pc = "signingIn",
                                          !.sent = @ + 1]
          /\ UNCHANGED authReturn
  /\ UNCHANGED <<credentials, accountVersion, serviceVarsButSession,
                 conflictVars, mutatorVars, deltaVars>>

SessionNext ==
  \/ \E passwordLength \in {MINIMUM_PASSWORD_LENGTH - 1,
                            MINIMUM_PASSWORD_LENGTH} :
       register(passwordLength)
  \/ changePassword
  \/ \E strict \in BOOLEAN,
        minAllowedVersion \in supportedVersions \cup {NoKeyParamsVersion} :
       signIn(strict, minAllowedVersion)
  \/ \E given \in BOOLEAN : reauthenticateInvalidSession(given)
  \/ bypassChecksAndSignInWithServerPassword
  \/ signInResponds
  \/ \E given \in BOOLEAN : promptForMfaValue(given)

\* A client with or without account key params, of any supported version.
InitSessions ==
  /\ InitEngine
  /\ items = [i \in Items |-> CleanItem]
  /\ InitResponse
  /\ InitRecovery
  /\ InitMigration
  /\ InitConflict
  /\ InitMutator
  /\ InitDelta
  /\ InitHash
  /\ InitRecord
  /\ user = NoUser
  /\ storedUser = NoUser
  /\ session = NoSession
  /\ storedSession = NoSession
  /\ accountVersion \in supportedVersions \cup {NoKeyParamsVersion}
  /\ requests = 0
  /\ authCall = NoAuthCall
  /\ authReturn = NoAuthReturn

SpecSession == InitSessions /\ [][SessionNext]_<<vars, otherVars>>

TypeOKSession ==
  /\ user \in Users \cup {NoUser}
  /\ storedUser = user
  /\ storedSession = session
  /\ session.user = user
  /\ requests \in 0..MaxRequests
  /\ authCall.pc \in {"idle", "signingIn", "mfaPrompt"}

\* ------------------------------------------------------------------- C31
\* The latest call has returned.
Returned == authCall.pc = "idle" /\ authReturn.returned

\* A call whose latest server response carries an error returns that
\* response and leaves the user and the session, in memory and in storage,
\* as it found them.
ErrorReturnedCredentialsKept ==
  (Returned /\ authCall.response.error) =>
    /\ authReturn.response = authCall.response
    /\ credentials = authCall.before

\* A registration with a password shorter than MINIMUM_PASSWORD_LENGTH
\* returns an error and sends no request.
ShortPasswordNotSent ==
  (/\ Returned
   /\ authCall.op = "register"
   /\ authCall.passwordLength < MINIMUM_PASSWORD_LENGTH) =>
    /\ authReturn.response.error
    /\ requests = authCall.requestsBefore
    /\ credentials = authCall.before

\* The user and the session change only in the step that receives a server
\* response without error, which sets and persists both from the response.
SetOnlyWithoutError ==
  credentials' # credentials =>
    /\ ~authCall'.response.error
    /\ authCall'.response.id = requests'
    /\ authReturn'.response = authCall'.response
    /\ user' = authCall'.response.user
    /\ storedUser' = user'
    /\ session'.user = user'
    /\ storedSession' = session'

\* C31: a sign-in, registration or password change whose server response
\* carries an error returns that response and leaves the stored user and
\* session unchanged; user and session are set and persisted only on a
\* response without error; a registration with a password shorter than 8
\* characters returns an error without contacting the server.
C31_ErrorLeavesCredentials ==
  /\ []ErrorReturnedCredentialsKept
  /\ []ShortPasswordNotSent
  /\ [][SetOnlyWithoutError]_<<vars, otherVars>>

\* A signed-in user whose later sign-in was answered with an error.
C31_Witness ==
  /\ Returned
  /\ authCall.op = "signIn"
  /\ authCall.sent > 0
  /\ authCall.response.error
  /\ authReturn.response = authCall.response
  /\ user # NoUser
  /\ credentials = authCall.before

\* ------------------------------------------------------------------- C33
\* The latest call is a sign-in with checks that sent the server password.
SentWithChecks ==
  authCall.op \in {"signIn", "reauthenticate"} /\ authCall.sent > 0

\* The server password was sent only for key params of a supported version,
\* with the cost minimum met and the confirmation given if the version is
\* outdated, and of a version not below the lowest allowed one.
SentOnlyAfterChecks ==
  SentWithChecks =>
    /\ authCall.version \in 1..LatestVersion
    /\ authCall.version \in {1, 2} =>
         /\ authCall.pw_cost >= costMinimumForVersion(authCall.version)
         /\ authCall.confirmed
    /\ authCall.strict => authCall.version = LatestVersion
    /\ authCall.minAllowedVersion # NoKeyParamsVersion =>
         authCall.version >= authCall.minAllowedVersion

\* Key params of a version that is not supported give the unsupported
\* version error if the version is newer than the library's, the expired
\* version error if it is older.
UnsupportedOrExpired ==
  (/\ Returned
   /\ authCall.op \in {"signIn", "reauthenticate"}
   /\ authCall.version # NoKeyParamsVersion
   /\ authCall.version \notin 1..LatestVersion) =>
    /\ authCall.sent = 0
    /\ authReturn.response.error
    /\ authReturn.response.message =
         IF authCall.version > LatestVersion
         THEN "UNSUPPORTED_PROTOCOL_VERSION"
         ELSE "EXPIRED_PROTOCOL_VERSION"

\* A reauthentication allows no version below that of the client's current
\* key params, and sends the server password for no lower one.
ReauthenticationNotLower ==
  (authCall.op = "reauthenticate" /\ authCall.response.id > 0) =>
    /\ ~authCall.strict
    /\ authCall.minAllowedVersion = accountVersion
    /\ authCall.sent > 0 => authCall.version >= accountVersion

\* C33: signIn sends the server password only after every check has
\* passed: the version is supported (newer than 004: unsupported-version
\* error, older and unsupported: expired-version error), an outdated
\* version meets its cost minimum and was confirmed, the version is at
\* least minAllowedVersion (the latest when strict); a reauthentication
\* passes the client's current version as minAllowedVersion and never
\* signs in with a lower one.
C33_PasswordSentAfterChecks ==
  /\ SentOnlyAfterChecks
  /\ UnsupportedOrExpired
  /\ ReauthenticationNotLower

\* A reauthentication of a client with 002 key params that sent the server
\* password twice, for confirmed 002 key params and an MFA code.
C33_Witness ==
  /\ authCall.op = "reauthenticate"
  /\ authCall.sent = 2
  /\ accountVersion = 2
  /\ authCall.version = 2
  /\ authCall.confirmed

\* ========================================================= integrity hash
\* SNSyncManager.computeDataIntegrityHash (sync_manager.js L655-672).

\* Microseconds of a millisecond: the server's updated_at has microseconds,
\* the Date of an item has milliseconds.
MicrosPerMilli == 1000

\* Values of updated_at, in microseconds: two of the same millisecond and
\* one of a later millisecond.
Timestamps == {MicrosPerMilli, MicrosPerMilli + 1, 2 * MicrosPerMilli}

HashedItems ==
  [uuid : 1..NumHashedItems, deleted : BOOLEAN, updated_at : Timestamps]

\* Lists of the items, one item of each uuid, in any order.
ItemLists ==
  {q \in [1..NumHashedItems -> HashedItems] :
     \A i, j \in 1..NumHashedItems : i # j => q[i].uuid # q[j].uuid}

\* SNItem.updatedAtTimestamp (part_005 L312-314): getTime() of the Date,
\* which is in milliseconds.
updatedAtTimestamp(item) == item.updated_at \div MicrosPerMilli

\* modelManager.nonDeletedItems
nonDeletedItems(list) == SelectSeq(list, LAMBDA item : ~item.deleted)

\* The item put into a list sorted by b.updated_at - a.updated_at (L662-664),
\* after the items that are not earlier.
RECURSIVE insertDescending(_, _)
insertDescending(item, sorted) ==
  IF sorted = <<>> THEN <<item>>
  ELSE IF updatedAtTimestamp(Head(sorted)) - updatedAtTimestamp(item) >= 0
  THEN <<Head(sorted)>> \o insertDescending(item, Tail(sorted))
  ELSE <<item>> \o sorted

\* sort (L662-664): latest first, items of the same time in their order.
RECURSIVE sortDescending(_)
sortDescending(list) ==
  IF list = <<>> THEN <<>>
  ELSE insertDescending(list[Len(list)],
                        sortDescending(SubSeq(list, 1, Len(list) - 1)))

\* L662-666: the string handed to sha256, as the sequence of the numbers
\* that join(',') joins.
hashedString(list) ==
  LET sorted == sortDescending(nonDeletedItems(list))
      dates == [i \in 1..Len(sorted) |-> updatedAtTimestamp(sorted[i])]
  IN dates

\* computeDataIntegrityHash (L660-672) for one of the two lists.
computeDataIntegrityHash(k) ==
  /\ hashedStrings[k] = NoString
  /\ hashedStrings' = [hashedStrings EXCEPT ![k] = hashedString(itemLists[k])]
  /\ UNCHANGED <<itemLists, vars, responseVars, recoveryVars, migrationVars,
                 sessionVars, conflictVars, mutatorVars, deltaVars,
                 recordVars>>

HashNext == \E k \in 1..2 : computeDataIntegrityHash(k)

\* Any two lists of items.
InitHashes ==
  /\ InitEngine
  /\ items = [i \in Items |-> CleanItem]
  /\ InitResponse
  /\ InitRecovery
  /\ InitMigration
  /\ InitConflict
  /\ InitMutator
  /\ InitDelta
  /\ InitSession
  /\ InitRecord
  /\ itemLists \in [1..2 -> ItemLists]
  /\ hashedStrings = <<NoString, NoString>>

SpecHash == InitHashes /\ [][HashNext]_<<vars, otherVars>>

\* ------------------------------------------------------------------- C32
BothComputed == \A k \in 1..2 : hashedStrings[k] # NoString

\* The two lists hold the same items.
SameItems == Range(itemLists[1]) = Range(itemLists[2])

\* The item of the uuid in the list.
ItemOf(k, u) == CHOOSE item \in Range(itemLists[k]) : item.uuid = u

\* The two lists differ in the updated_at of an item that is not deleted,
\* and in nothing but parts of updated_at below the millisecond.
DifferBelowMillisecond ==
  /\ \A u \in 1..NumHashedItems :
       /\ ItemOf(1, u).deleted = ItemOf(2, u).deleted
       /\ ItemOf(1, u).updated_at \div MicrosPerMilli =
            ItemOf(2, u).updated_at \div MicrosPerMilli
  /\ \E u \in 1..NumHashedItems :
       /\ ~ItemOf(1, u).deleted
       /\ ItemOf(1, u).updated_at # ItemOf(2, u).updated_at

\* The hashed string is the same for every order of the list of items.
C32_SameForEveryOrder ==
  (BothComputed /\ SameItems) => hashedStrings[1] = hashedStrings[2]

\* The hashed string has one value for each item that is not deleted, none
\* for a deleted one, the values in descending order.
C32_NoDeletedItemDescending ==
  \A k \in 1..2 :
    hashedStrings[k] # NoString =>
      /\ Len(hashedStrings[k]) =
           Cardinality({item \in Range(itemLists[k]) : ~item.deleted})
      /\ \A i, j \in 1..Len(hashedStrings[k]) :
           i < j => hashedStrings[k][i] >= hashedStrings[k][j]

\* The values of the hashed string are the updated_at of the items in
\* microseconds.
C32_MicrosecondValues ==
  \A k \in 1..2 :
    hashedStrings[k] # NoString =>
      Range(hashedStrings[k]) =
        {item.updated_at : item \in {i \in Range(itemLists[k]) : ~i.deleted}}

\* Item sets that differ only below the millisecond give different strings.
C32_DifferBelowMillisecondDiffer ==
  (BothComputed /\ DifferBelowMillisecond) =>
    hashedStrings[1] # hashedStrings[2]

\* C32: computeDataIntegrityHash hashes the comma-joined updated_at
\* microsecond values of exactly the non-deleted items in descending order
\* of updated_at: the string is the same for every initial order of the
\* list, has no deleted item, and differs for item sets whose updated_at
\* differ only below the millisecond.
C32_HashedString ==
  /\ C32_SameForEveryOrder
  /\ C32_NoDeletedItemDescending
  /\ C32_MicrosecondValues
  /\ C32_DifferBelowMillisecondDiffer

\* ------------------------------------------------------------------- C34
\* The call begins its round in this step (opStatus.setDidBegin(), L393).
BeginsRound(c) == pc[c] # "begun" /\ pc'[c] = "begun"

\* A round begins only with the database loaded.
C34_NoRoundBeforeDatabaseLoaded ==
  [][\A c \in Calls : BeginsRound(c) => databaseLoaded]_vars

\* A call that reaches the check of L377 before the database is loaded is
\* queued by its timing strategy.
C34_QueuedBeforeDatabaseLoaded ==
  [][\A c \in Calls :
       (pc[c] = "collected" /\ pc'[c] # "collected" /\ ~databaseLoaded) =>
         IF strategy[c] = TIMING_STRATEGY_RESOLVE_ON_NEXT
         THEN /\ pc'[c] = "waitResolve"
              /\ resolveQueue' = Append(resolveQueue, c)
              /\ spawnQueue' = spawnQueue
         ELSE /\ pc'[c] = "waitSpawn"
              /\ spawnQueue' = Append(spawnQueue, c)
              /\ resolveQueue' = resolveQueue]_vars

\* A sync() call made while syncing is locked returns at once: nothing is
\* persisted or queued, no state changes.
C34_LockedCallChangesNothing ==
  [][(locked /\ locked' /\ events' = <<>> /\ clock' = clock) =>
       \/ \E c \in Calls : pc[c] # "idle" /\ pc'[c] # pc[c]
       \/ UNCHANGED <<pc, strategy, mode, snapshot, nsd, presaved, inTime,
                      upload, response, engineVars, dataVars>>]_vars

\* A round begins only while syncing is not locked.
C34_NoRoundWhileLocked ==
  [][\A c \in Calls : BeginsRound(c) => ~locked]_vars

\* C34: no sync round begins while the local database is not loaded or
\* while syncing is locked; a sync() call made before the database is loaded
\* is queued by its timing strategy, one made while locked returns without
\* persisting, queueing or changing any state.
C34_NoRoundUnloadedOrLocked ==
  /\ C34_NoRoundBeforeDatabaseLoaded
  /\ C34_QueuedBeforeDatabaseLoaded
  /\ C34_LockedCallChangesNothing
  /\ C34_NoRoundWhileLocked

\* ------------------------------------------------------------------- C35
\* The sync engine in which every call that can take a step takes one: the
\* event loop resumes every call whose awaited promise has settled, and the
\* server answers every request.
SpecSyncFair == SpecSync /\ \A c \in Calls : WF_vars(CallStep(c))

\* The call has returned or thrown, or it waits in a queue for the round of
\* another call: it starts no round.
Stopped(c) == pc[c] \in {"idle", "thrown", "waitResolve", "waitSpawn"}

\* C35: every sync() call that begins a round terminates: it chains a
\* bounded number of rounds, also when the server answers every round with
\* an error and the dirty items stay dirty; it does not keep starting new
\* rounds forever.
C35_BegunCallTerminates ==
  \A c \in Calls : (pc[c] = "begun") ~> Stopped(c)

\* ------------------------------------------------------------------- C36
\* The payloads the round of the call uploads belong to items that are
\* dirty when the round begins.
C36_UploadedItemsDirtyAtBegin ==
  [][\A c \in Calls :
       BeginsRound(c) => \A i \in uploadPayloads(c) : items[i].dirty]_vars

\* The payloads the round of the call uploads hold the content the items
\* have when the round begins.
C36_UploadedContentCurrentAtBegin ==
  [][\A c \in Calls :
       BeginsRound(c) =>
         \A i \in uploadPayloads(c) :
           snapshot[c][i] = items[i].dirtiedDate]_vars

\* C36: every payload a sync round uploads belongs to an item that is dirty
\* at the moment the round begins: a call that collected its dirty items
\* while an earlier round was running and begins its round after that round
\* ended uploads neither items the earlier round saved nor stale content of
\* items changed in between.
C36_UploadsWhatIsDirtyAtBegin ==
  /\ C36_UploadedItemsDirtyAtBegin
  /\ C36_UploadedContentCurrentAtBegin

\* ------------------------------------------------------------------- C37
\* C37: opStatus.syncInProgress is true only while a round is running: when
\* a sync() call fails after setDidBegin (a default-mode sync before the
\* initial sync has completed) the flag is cleared again, so that later
\* sync() calls can begin a round instead of being queued.
C37_InProgressOnlyWhileRunning ==
  syncInProgress => RunningRounds # {}

\* ------------------------------------------------------------------- C39
\* The call is queued in this step (L383-387).
IsQueued(c) ==
  pc[c] = "collected" /\ pc'[c] \in {"waitResolve", "waitSpawn"}

\* The sync of the queued call is started in this step (popSpawnQueue,
\* L309-318).
IsStartedFromQueue(c) == pc[c] = "waitSpawn" /\ pc'[c] = "collected"

\* The entry of a queued call holds the mode the call was made with.
C39_QueuedKeepsMode ==
  [][\A c \in Calls : IsQueued(c) => mode'[c] = mode[c]]_vars

\* The sync started for a spawn-queue entry has the mode of the entry.
C39_StartedWithModeOfEntry ==
  [][\A c \in Calls : IsStartedFromQueue(c) => mode'[c] = mode[c]]_vars

\* C39: a sync request that is queued instead of being run at once is later
\* executed with the mode and the checkIntegrity option it was called with,
\* for both timing strategies.
C39_QueuedRunsWithItsOptions ==
  /\ C39_QueuedKeepsMode
  /\ C39_StartedWithModeOfEntry


\* ============================================== the undecryptables record
\* SNKeyRecoveryService, migration_service.ts L307-377.  The storage service
\* is followed as the value it keeps for the key: a read gives the value
\* stored when it is made, a write replaces it, and both are suspension
\* points.

\* The variables the updates of the record leave alone.
allButRecord == <<vars, responseVars, recoveryVars, migrationVars,
                  sessionVars, hashVars, conflictVars, mutatorVars,
                  deltaVars>>

\* An update has read the record and has not written it yet, or is about to
\* read it.
InFlight(u) == updates[u].at \in {"called", "read"}

\* handleIgnoredItemsKeys, L307-318: a batch of ignored keys arrives, and
\* saveToUndecryptables calls getUndecryptables (L361).
handleIgnoredItemsKeys(u, keys) ==
  /\ updates[u] = NoUpdate
  /\ updates' = [updates EXCEPT ![u] =
       [op |-> "save", keys |-> keys, at |-> "called", record |-> {}]]
  /\ expectedRecord' = expectedRecord \cup keys
  /\ UNCHANGED <<storedRecord, queuedKeys, allButRecord>>

\* The callback handleIgnoredItemsKeys gives to addKeysToQueue, L320-325: a
\* queued key was decrypted, and removeFromUndecryptables, which is not
\* awaited, calls getUndecryptables (L371).
decryptionSucceeded(u, k) ==
  /\ updates[u] = NoUpdate
  /\ k \in queuedKeys
  /\ queuedKeys' = queuedKeys \ {k}
  /\ updates' = [updates EXCEPT ![u] =
       [op |-> "remove", keys |-> {k}, at |-> "called", record |-> {}]]
  /\ expectedRecord' = expectedRecord \ {k}
  /\ UNCHANGED <<storedRecord, allButRecord>>

\* getUndecryptables, L347-353: the value stored for the key, {} without one.
getUndecryptables(u) ==
  /\ updates[u].at = "called"
  /\ updates' = [updates EXCEPT
       ![u].at = "read",
       ![u].record = IF storedRecord.stored THEN storedRecord.uuids ELSE {}]
  /\ UNCHANGED <<storedRecord, queuedKeys, expectedRecord, allButRecord>>

\* Variant of changedRecord that changes the record as it is stored now.
changedStoredRecord(update) ==
  IF update.op = "save" THEN storedRecord.uuids \cup update.keys
                        ELSE storedRecord.uuids \ update.keys

\* saveToUndecryptables, L363-365, and removeFromUndecryptables, L372: the
\* record that was read, with the keys set or deleted.
changedRecord(update) ==
  IF update.op = "save" THEN update.record \cup update.keys
                        ELSE update.record \ update.keys

\* persistUndecryptables, L355-360, called at L366 and L373 with the record
\* that was read and changed.
persistUndecryptables(u) ==
  /\ updates[u].at = "read"
  /\ storedRecord' = [stored |-> TRUE, uuids |-> changedRecord(updates[u])]
  /\ updates' = [updates EXCEPT ![u].at = "written"]
  /\ UNCHANGED <<queuedKeys, expectedRecord, allButRecord>>

\* handleIgnoredItemsKeys, L320: after the save, addKeysToQueue puts the keys
\* in the decryption queue.
keysQueued(u) ==
  /\ updates[u].at = "written"
  /\ updates[u].op = "save"
  /\ queuedKeys' = queuedKeys \cup updates[u].keys
  /\ updates' = [updates EXCEPT ![u].at = "queued"]
  /\ UNCHANGED <<storedRecord, expectedRecord, allButRecord>>

RecordNext ==
  \/ \E u \in Updates, keys \in SUBSET Keys \ {{}} :
       handleIgnoredItemsKeys(u, keys)
  \/ \E u \in Updates, k \in Keys : decryptionSucceeded(u, k)
  \/ \E u \in Updates : getUndecryptables(u)
  \/ \E u \in Updates : persistUndecryptables(u)
  \/ \E u \in Updates : keysQueued(u)

InitRecords ==
  /\ InitEngine
  /\ items = [i \in Items |-> CleanItem]
  /\ InitResponse
  /\ InitRecovery
  /\ InitMigration
  /\ InitItems

\* Batches of ignored keys and the removals of decrypted keys.
SpecRecord == InitRecords /\ [][RecordNext]_<<vars, otherVars>>

TypeOKRecord ==
  /\ storedRecord.uuids \subseteq Keys
  /\ queuedKeys \subseteq Keys
  /\ expectedRecord \subseteq Keys
  /\ \A u \in Updates :
       updates[u].at \in {"none", "called", "read", "written", "queued"}

\* ------------------------------------------------------------------- C38
\* An update that is alone from its call to its write leaves the record with
\* its keys set or deleted and the other keys as they were.
C38_AloneUpdateKept ==
  [][\A u \in Updates :
       (/\ updates[u].at = "read"
        /\ updates'[u].at = "written"
        /\ updates[u].record = storedRecord.uuids) =>
          storedRecord'.uuids = changedStoredRecord(updates[u])
    ]_<<vars, otherVars>>

\* The keys of a batch are in the record when they are put in the queue.
C38_InRecordWhenQueued ==
  [][\A u \in Updates :
       (updates[u].at = "written" /\ updates'[u].at = "queued") =>
          updates[u].keys \subseteq storedRecord.uuids]_<<vars, otherVars>>

\* C38: the updates of the key_recovery_undecryptable_items record do not
\* overwrite one another: once no update is between its read and its write,
\* the record holds every key that was saved and not removed and none that
\* was removed.
C38_UpdatesNotOverwritten ==
  (\A u \in Updates : ~InFlight(u)) => storedRecord.uuids = expectedRecord


\* ================================================ the runs of the queue
\* addKeysToQueue (L459-479) for keys that have no embedded key params: every
\* key is skipped (L465-467) and nothing is queued; then the call of
\* beginProcessingQueue (L327, L332) up to its first await (L490-495).
addNoKeysToQueue(a) ==
  /\ a \in pendingAdds
  /\ pendingAdds' = pendingAdds \ {a}
  /\ IF isProcessingQueue
       THEN UNCHANGED <<isProcessingQueue, kpc>>
       ELSE isProcessingQueue' = TRUE /\ kpc' = "fetching"
  /\ happened' = {did("skipped", a.key)}
  /\ UNCHANGED <<itemState, undecryptables, decryptionQueue, cur,
                 replacesRootKey, dpc, rootKeyParams, serverParams,
                 hasPasscode, vars, responseVars, migrationVars, itemVars>>

\* beginProcessingQueue, L495-522: the request of the server's key params, or
\* the sign-in, is rejected; the run has no catch and no finally, and
\* isProcessingQueue stays as L493 set it.
awaitedCallThrows ==
  /\ kpc \in {"fetching", "signin"}
  /\ kpc' = "thrown"
  /\ cur' = NoItem
  /\ happened' = {did("thrown", 0)}
  /\ UNCHANGED <<itemState, undecryptables, pendingAdds, decryptionQueue,
                 isProcessingQueue, replacesRootKey, dpc, rootKeyParams,
                 serverParams, hasPasscode, vars, responseVars, migrationVars,
                 itemVars>>

QueueNext ==
  \/ RecoveryNext
  \/ \E a \in pendingAdds : addNoKeysToQueue(a)
  \/ awaitedCallThrows

\* Key recovery with keys that have no embedded key params and with awaited
\* calls that are rejected.
SpecQueue == InitKeys /\ [][QueueNext]_<<vars, otherVars>>

\* The steps of a run that wait for nobody are taken, and the user answers
\* the corrective sign-in with something other than a wrong password.
QueueFairness ==
  /\ WF_<<vars, otherVars>>(\E reply \in KeyParams \cup {NoParams} :
                               getAccountKeyParams(reply))
  /\ WF_<<vars, otherVars>>(popQueueItem)
  /\ WF_<<vars, otherVars>>(queueEmptied)
  /\ WF_<<vars, otherVars>>(queuePromiseThen)
  /\ WF_<<vars, otherVars>>(\E r \in {"cancel", "right"} :
                               performServerSignIn(r))

SpecQueueFair == SpecQueue /\ QueueFairness

\* The runs without the skipped keys and the rejected calls.
SpecRecoveryFair == SpecRecovery /\ QueueFairness

\* The queue is empty and no queue item is being prompted for.
QueueIsEmpty == decryptionQueue = <<>> /\ cur = NoItem

\* ------------------------------------------------------------------- C40
\* A run that throws leaves isProcessingQueue set.
C40_ThrownRunStillProcessing ==
  [][kpc' = "thrown" => isProcessingQueue']_<<vars, otherVars>>

\* C40: after every run of beginProcessingQueue, once the queue is empty
\* isProcessingQueue eventually returns to false, also for a run that finds
\* the queue empty with no local credentials and for a run a step of which
\* throws.
C40_ProcessingEndsOnceQueueEmpty ==
  (isProcessingQueue /\ QueueIsEmpty) ~> (~isProcessingQueue \/ ~QueueIsEmpty)

====
